---- MODULE Spec2Model ----
(***************************************************************************)
(* A model of The-Financial-Detective: the pipeline that turns the replies *)
(* of an extraction oracle into a deduplicated entity/relationship graph   *)
(* (src/src/extractor.py), and the renderer's node/edge construction       *)
(* (src/src/visualizer.py).                                                *)
(*                                                                         *)
(* Python strings are sequences of one-character strings, so that          *)
(* normalisation, substring tests and case conversion are computed the way *)
(* the code computes them.  A character that a TLA+ string cannot hold is  *)
(* written as its code point: "U+0060" is the backtick, "U+0130" the       *)
(* capital I with dot above and "U+0307" the combining dot above.  Entity  *)
(* types are compared only for equality in the code and are plain strings  *)
(* here.                                                                   *)
(***************************************************************************)
EXTENDS Integers, Sequences, FiniteSets, TLC

\* ------------------------------------------------------------------------
\* Python str operations used by the code
\* ------------------------------------------------------------------------
UpperChars ==
  << "A","B","C","D","E","F","G","H","I","J","K","L","M",
     "N","O","P","Q","R","S","T","U","V","W","X","Y","Z" >>

LowerChars ==
  << "a","b","c","d","e","f","g","h","i","j","k","l","m",
     "n","o","p","q","r","s","t","u","v","w","x","y","z" >>

\* str.lower() on one character
lower_char(c) ==
  IF \E i \in 1..26 : UpperChars[i] = c
  THEN LowerChars[CHOOSE i \in 1..26 : UpperChars[i] = c]
  ELSE c

\* str.upper() on one character
upper_char(c) ==
  IF \E i \in 1..26 : LowerChars[i] = c
  THEN UpperChars[CHOOSE i \in 1..26 : LowerChars[i] = c]
  ELSE c

\* str.lower() character by character; the lower case of U+0130 is the two
\* characters "i" and U+0307
RECURSIVE lower_each(_)
lower_each(s) ==
  IF s = <<>> THEN <<>>
  ELSE (IF Head(s) = "U+0130" THEN <<"i", "U+0307">>
        ELSE <<lower_char(Head(s))>>) \o lower_each(Tail(s))

lower(s) ==
  IF \A i \in 1..Len(s) : s[i] # "U+0130"
  THEN [i \in 1..Len(s) |-> lower_char(s[i])]
  ELSE lower_each(s)

upper(s) == [i \in 1..Len(s) |-> upper_char(s[i])]

\* the characters str.strip() and str.split() treat as whitespace
Whitespace == {" ", "\t", "\n"}

\* index of the first character of s at or after position k that is (when
\* ws = TRUE) or is not (ws = FALSE) whitespace; Len(s) + 1 when there is none
next_index(s, k, ws) ==
  IF \E i \in k..Len(s) : (s[i] \in Whitespace) = ws
  THEN CHOOSE i \in k..Len(s) :
         /\ (s[i] \in Whitespace) = ws
         /\ \A j \in k..(i - 1) : (s[j] \in Whitespace) # ws
  ELSE Len(s) + 1

lstrip(s) == SubSeq(s, next_index(s, 1, FALSE), Len(s))

rstrip(s) ==
  IF \E i \in 1..Len(s) : s[i] \notin Whitespace
  THEN SubSeq(s, 1, CHOOSE i \in 1..Len(s) :
                      /\ s[i] \notin Whitespace
                      /\ \A j \in (i + 1)..Len(s) : s[j] \in Whitespace)
  ELSE <<>>

strip(s) == rstrip(lstrip(s))

startswith(s, p) == Len(p) <= Len(s) /\ SubSeq(s, 1, Len(p)) = p

\* whether sub occurs in s at 0-based offset i
occurs_at(s, sub, i) ==
  i + Len(sub) <= Len(s) /\ SubSeq(s, i + 1, i + Len(sub)) = sub

\* Python's "sub in s"
contains(s, sub) == \E i \in 0..(Len(s) - Len(sub)) : occurs_at(s, sub, i)

\* str.find(sub): 0-based offset of the first occurrence, -1 when absent
find(s, sub) ==
  IF contains(s, sub)
  THEN CHOOSE i \in 0..(Len(s) - Len(sub)) :
         /\ occurs_at(s, sub, i)
         /\ \A j \in 0..(i - 1) : ~occurs_at(s, sub, j)
  ELSE -1

\* s[k:] for 0 <= k
slice_from(s, k) == SubSeq(s, k + 1, Len(s))

\* str.replace(old, new): leftmost non-overlapping occurrences, old non-empty
RECURSIVE replace(_, _, _)
replace(s, old, new) ==
  LET p == find(s, old) IN
  IF p = -1 THEN s
  ELSE SubSeq(s, 1, p) \o new \o replace(slice_from(s, p + Len(old)), old, new)

\* str.split() with no argument: the list of whitespace-delimited words
RECURSIVE split(_)
split(s) ==
  LET b == next_index(s, 1, FALSE) IN
  IF b > Len(s) THEN <<>>
  ELSE LET e == next_index(s, b, TRUE) IN
       <<SubSeq(s, b, e - 1)>> \o split(slice_from(s, e - 1))

\* " ".join(words)
RECURSIVE join_space(_)
join_space(words) ==
  IF words = <<>> THEN <<>>
  ELSE IF Len(words) = 1 THEN words[1]
  ELSE words[1] \o <<" ">> \o join_space(Tail(words))

\* the elements of a list, as a set
Range(s) == {s[i] : i \in 1..Len(s)}

\* ------------------------------------------------------------------------
\* Names, metadata and relation tags the inputs are drawn from
\* ------------------------------------------------------------------------
ShriMukeshDAmbani ==
  <<"S","h","r","i"," ","M","u","k","e","s","h"," ","D","."," ",
    "A","m","b","a","n","i">>

MukeshAmbani == <<"M","u","k","e","s","h"," ","A","m","b","a","n","i">>

RelianceIndustriesLimited ==
  <<"R","e","l","i","a","n","c","e"," ","I","n","d","u","s","t","r","i","e","s",
    " ","L","i","m","i","t","e","d">>

RIL == <<"R","I","L">>

Rs81309Crore == <<"₹","8","1",",","3","0","9"," ","c","r","o","r","e">>

MarketVolatility ==
  <<"M","a","r","k","e","t"," ","V","o","l","a","t","i","l","i","t","y">>

RelianceRetail == <<"R","e","l","i","a","n","c","e"," ","R","e","t","a","i","l">>

Jio == <<"J","i","o">>

RelianceJioRetail ==
  <<"R","e","l","i","a","n","c","e"," ","J","i","o"," ","R","e","t","a","i","l">>

TenB == <<"1","0","B">>

FY2024 == <<"F","Y"," ","2","0","2","4">>

NetProfitMargin ==
  <<"N","e","t"," ","P","r","o","f","i","t"," ","M","a","r","g","i","n">>

Chairman == <<"C","h","a","i","r","m","a","n">>

HAS_PROFIT == <<"H","A","S","_","P","R","O","F","I","T">>

has_revenue_ == <<"h","a","s","_","r","e","v","e","n","u","e"," ">>

CHAIRMAN_OF == <<"C","H","A","I","R","M","A","N","_","O","F">>

REVENUE == <<"R","E","V","E","N","U","E">>

Subsidiary == <<"S","u","b","s","i","d","i","a","r","y">>

\* a name with a repeated word and a single-letter word
TataTataS == <<"T","a","t","a"," ","T","a","t","a"," ","S">>

TataSons == <<"T","a","t","a"," ","S","o","n","s">>

\* a name that is only a title: its normalized form is empty
MrDot == <<"M","r",".">>

JioLtd == <<"J","i","o"," ","L","t","d">>

\* the names the inputs of this model are drawn from
KnownNames ==
  { ShriMukeshDAmbani, MukeshAmbani, RelianceIndustriesLimited, RIL,
    Rs81309Crore, MarketVolatility, RelianceRetail, Jio, RelianceJioRetail,
    TenB, FY2024, NetProfitMargin, TataTataS, TataSons, MrDot, JioLtd }

\* ------------------------------------------------------------------------
\* Identity resolver: _normalize_name and _is_same_entity
\* ------------------------------------------------------------------------
person_titles ==
  << <<"s","h","r","i">>, <<"s","h","r","i",".">>, <<"s","h","r","e","e">>,
     <<"m","r",".">>, <<"m","r">>, <<"m","r","s",".">>, <<"m","r","s">>,
     <<"m","s",".">>, <<"m","s">>, <<"d","r",".">>, <<"d","r">>,
     <<"p","r","o","f",".">>, <<"p","r","o","f">>, <<"s","i","r">>,
     <<"m","a","d","a","m">>, <<"s","m","t",".">>, <<"s","m","t">> >>

\* the substrings removed by the chained replace calls, in call order
company_suffixes ==
  << <<" ","l","i","m","i","t","e","d">>, <<" ","l","t","d">>,
     <<" ","l","t","d",".">>,
     <<" ","i","n","d","u","s","t","r","i","e","s">>,
     <<" ","i","n","d","u","s","t","r","y">>,
     <<" ","c","o","r","p","o","r","a","t","i","o","n">>,
     <<" ","c","o","r","p">>, <<" ","c","o","r","p",".">>,
     <<" ","i","n","c","o","r","p","o","r","a","t","e","d">>,
     <<" ","i","n","c">>, <<" ","i","n","c",".">> >>

\* the second startswith test of an iteration of the title loop
strip_title_dot(normalized, title) ==
  IF startswith(normalized, title \o <<".">>)
  THEN strip(slice_from(normalized, Len(title) + 1))
  ELSE normalized

\* one iteration of the title loop: both startswith tests, in order
strip_title(normalized, title) ==
  strip_title_dot(IF startswith(normalized, title \o <<" ">>)
                  THEN strip(slice_from(normalized, Len(title)))
                  ELSE normalized,
                  title)

\* the title loop from its k-th iteration on; an iteration whose title the
\* string does not start with leaves the string unchanged, so the loop
\* resumes at the next title that applies
RECURSIVE strip_titles(_, _)
strip_titles(normalized, k) ==
  LET applies(j) == \/ startswith(normalized, person_titles[j] \o <<" ">>)
                    \/ startswith(normalized, person_titles[j] \o <<".">>)
  IN IF \E j \in k..Len(person_titles) : applies(j)
     THEN LET j == CHOOSE j \in k..Len(person_titles) :
                     applies(j) /\ \A h \in k..(j - 1) : ~applies(h)
          IN strip_titles(strip_title(normalized, person_titles[j]), j + 1)
     ELSE normalized

\* the chained replace calls from the k-th on; a call whose substring does
\* not occur leaves the string unchanged, so the chain resumes at the next
\* substring that occurs
RECURSIVE remove_suffixes(_, _)
remove_suffixes(normalized, k) ==
  LET occurs(j) == contains(normalized, company_suffixes[j])
  IN IF \E j \in k..Len(company_suffixes) : occurs(j)
     THEN LET j == CHOOSE j \in k..Len(company_suffixes) :
                     occurs(j) /\ \A h \in k..(j - 1) : ~occurs(h)
          IN remove_suffixes(replace(normalized, company_suffixes[j], <<>>),
                             j + 1)
     ELSE normalized

remove_punctuation(normalized) ==
  replace(replace(replace(replace(normalized, <<".">>, <<>>),
                          <<",">>, <<>>),
                  <<"-">>, <<" ">>),
          <<"_">>, <<" ">>)

compute_normalize_name(name) ==
  IF name = <<>> THEN <<>>
  ELSE join_space(split(remove_punctuation(
         remove_suffixes(strip_titles(lower(strip(name)), 1), 1))))

\* _normalize_name, computed once for each known name
NormalizedNames ==
  {<<name, compute_normalize_name(name)>> : name \in KnownNames}

normalize_name(name) ==
  IF name \in KnownNames
  THEN (CHOOSE p \in NormalizedNames : p[1] = name)[2]
  ELSE compute_normalize_name(name)

\* [w for w in words if len(w) > 1]
core_words(words) == SelectSeq(words, LAMBDA w : Len(w) > 1)

\* the tests on the word lists of the two normalized names
same_words(words1, words2) ==
  \/ /\ Len(core_words(words1)) >= 2
     /\ Len(core_words(words2)) >= 2
     /\ \/ Range(core_words(words1)) = Range(core_words(words2))
        \/ IF Len(core_words(words1)) <= Len(core_words(words2))
           THEN Range(core_words(words1)) \subseteq Range(core_words(words2))
           ELSE Range(core_words(words2)) \subseteq Range(core_words(words1))
  \/ /\ Range(words1) # {}
     /\ Range(words2) # {}
     /\ \/ Range(words1) \subseteq Range(words2)
        \/ Range(words2) \subseteq Range(words1)

\* the tests on the two normalized names
same_normalized(norm1, norm2) ==
  \/ norm1 = norm2
  \/ same_words(split(norm1), split(norm2))
  \/ (Len(norm1) <= 5 /\ contains(norm2, norm1))
  \/ (Len(norm2) <= 5 /\ contains(norm1, norm2))

compute_is_same_entity(name1, name2) ==
  same_normalized(compute_normalize_name(name1), compute_normalize_name(name2))

\* _is_same_entity, computed once for each pair of known names
SameEntityPairs ==
  {<<p[1], p[2]>> :
     p \in {q \in KnownNames \X KnownNames :
              compute_is_same_entity(q[1], q[2])}}

is_same_entity(name1, name2) ==
  IF name1 \in KnownNames /\ name2 \in KnownNames
  THEN <<name1, name2>> \in SameEntityPairs
  ELSE compute_is_same_entity(name1, name2)

\* ------------------------------------------------------------------------
\* Data model.  A list item of an oracle record is a JSON value: isdict says
\* whether it is a JSON object.  In an entity, id stands for
\* entity.get('id') or entity.get('name') or '' and metadata for
\* entity.get('metadata', '') or '' (a missing key and an empty string are
\* the same to the code); type stands for entity.get('type', 'default').
\* In a relationship, source/target/relation stand for the alias lookups
\* (source/entity1/from, ...), empty when no alias is set, and
\* relation_is_str says whether the relation value is a JSON string.
\* ------------------------------------------------------------------------
Entity(id, type, metadata) ==
  [isdict |-> TRUE, id |-> id, type |-> type, metadata |-> metadata]

Rel(source, target, relation) ==
  [isdict |-> TRUE, source |-> source, target |-> target,
   relation |-> relation, relation_is_str |-> TRUE]

\* a list item that is not a JSON object (a string, a number, ...)
NotADict == [isdict |-> FALSE]

\* An insertion-ordered dict is a sequence of [key, value] entries.
dict_keys(d) == [i \in 1..Len(d) |-> d[i].key]

dict_values(d) == [i \in 1..Len(d) |-> d[i].value]

dict_has(d, k) == \E i \in 1..Len(d) : d[i].key = k

dict_index(d, k) == CHOOSE i \in 1..Len(d) : d[i].key = k

\* d[k] = v: an existing key keeps its position, a new key goes last
dict_set(d, k, v) ==
  IF dict_has(d, k)
  THEN [d EXCEPT ![dict_index(d, k)] = [key |-> k, value |-> v]]
  ELSE Append(d, [key |-> k, value |-> v])

\* del d[k]
dict_del(d, k) ==
  LET i == dict_index(d, k) IN SubSeq(d, 1, i - 1) \o SubSeq(d, i + 1, Len(d))

\* d.get(k, {}).get('type', 'default')
type_of(d, k) == IF dict_has(d, k) THEN d[dict_index(d, k)].value.type ELSE "default"

\* index of the first element of a list satisfying Test, 0 when there is none
first_index(s, Test(_)) ==
  IF \E i \in 1..Len(s) : Test(s[i])
  THEN CHOOSE i \in 1..Len(s) : Test(s[i]) /\ \A j \in 1..(i - 1) : ~Test(s[j])
  ELSE 0

\* ------------------------------------------------------------------------
\* Merge engine: _deduplicate_entities
\* ------------------------------------------------------------------------
\* the loop body for an entity that matched the i-th entry of entity_map
dedup_entity_merge(entity_map, entity, i) ==
  IF Len(entity.id) > Len(entity_map[i].key)
  THEN dict_set(dict_del(entity_map, entity_map[i].key), entity.id, entity)
  ELSE IF Len(entity.metadata) > Len(entity_map[i].value.metadata)
          /\ entity.metadata # <<>>
       THEN dict_set(entity_map, entity_map[i].key, entity)
       ELSE entity_map

\* the loop body for an entity with an id; i is the index of the first entry
\* of entity_map that is the same entity, 0 when there is none
dedup_entity_at(entity_map, entity, i) ==
  IF i = 0 THEN dict_set(entity_map, entity.id, entity)
  ELSE dedup_entity_merge(entity_map, entity, i)

\* the body of the loop over the incoming entities
dedup_entity_step(entity_map, entity) ==
  IF ~entity.isdict \/ entity.id = <<>> THEN entity_map
  ELSE dedup_entity_at(
         entity_map, entity,
         first_index(entity_map, LAMBDA kv : is_same_entity(entity.id, kv.key)))

RECURSIVE dedup_entity_loop(_, _)
dedup_entity_loop(entity_map, entities) ==
  IF entities = <<>> THEN entity_map
  ELSE dedup_entity_loop(dedup_entity_step(entity_map, entities[1]),
                         Tail(entities))

deduplicate_entities(entities) ==
  dict_values(dedup_entity_loop(<<>>, entities))

\* the entity map analyze builds from an entity list: id -> entity
RECURSIVE build_entity_map(_, _)
build_entity_map(entity_map, entities) ==
  IF entities = <<>> THEN entity_map
  ELSE LET e == entities[1] IN
       build_entity_map(IF e.isdict /\ e.id # <<>>
                        THEN dict_set(entity_map, e.id, e)
                        ELSE entity_map,
                        Tail(entities))

\* ------------------------------------------------------------------------
\* Merge engine: _deduplicate_relationships
\* ------------------------------------------------------------------------
RELATED_TO == <<"R","E","L","A","T","E","D","_","T","O">>

\* the normalized_to_canonical dict: normalized name -> the first of the
\* longest entity ids with that normalized name
RECURSIVE build_normalized_to_canonical(_, _)
build_normalized_to_canonical(normalized_to_canonical, names) ==
  IF names = <<>> THEN normalized_to_canonical
  ELSE
    LET orig_name == names[1]
        norm == normalize_name(orig_name)
        next == IF ~dict_has(normalized_to_canonical, norm)
                THEN dict_set(normalized_to_canonical, norm, orig_name)
                ELSE IF Len(orig_name) >
                        Len(normalized_to_canonical[
                              dict_index(normalized_to_canonical, norm)].value)
                     THEN dict_set(normalized_to_canonical, norm, orig_name)
                     ELSE normalized_to_canonical
    IN build_normalized_to_canonical(next, Tail(names))

\* normalized_to_canonical.get(norm, orig_name)
canonical_name(normalized_to_canonical, norm, orig_name) ==
  IF dict_has(normalized_to_canonical, norm)
  THEN normalized_to_canonical[dict_index(normalized_to_canonical, norm)].value
  ELSE orig_name

\* relation.strip().upper() of rel.get('relation') or ... or dflt
relation_upper(rel, dflt) ==
  upper(strip(IF rel.relation = <<>> THEN dflt ELSE rel.relation))

\* the two lookups for one endpoint: <<normalized name, canonical name>>; i
\* is the index of the first key of entity_map that is the same entity as
\* the endpoint, 0 when there is none
match_endpoint_keeps_name(name, entity_map, normalized_to_canonical, i) ==
  IF i = 0 THEN <<normalize_name(name), name>>
  ELSE <<normalize_name(entity_map[i].key), name>>

match_endpoint(name, entity_map, normalized_to_canonical, i) ==
  IF i = 0 THEN <<normalize_name(name), name>>
  ELSE <<normalize_name(entity_map[i].key),
         canonical_name(normalized_to_canonical,
                        normalize_name(entity_map[i].key),
                        entity_map[i].key)>>

resolve_endpoint(name, entity_map, normalized_to_canonical) ==
  match_endpoint(name, entity_map, normalized_to_canonical,
                 first_index(entity_map,
                             LAMBDA kv : is_same_entity(name, kv.key)))

\* the loop over unique_relationships; st holds relationship_set and
\* unique_relationships, di is the index of the first relationship that the
\* new one duplicates (0 when there is none); adds is_duplicate
check_duplicate_keeps_both(st, rel, normalized_relation, di) ==
  IF di = 0
  THEN [relationship_set |-> st.relationship_set,
        unique_relationships |-> st.unique_relationships,
        is_duplicate |-> FALSE]
  ELSE IF \/ Len(rel.source) > Len(st.unique_relationships[di].source)
          \/ Len(rel.target) > Len(st.unique_relationships[di].target)
       THEN [relationship_set |->
               st.relationship_set \
                 {<<normalize_name(st.unique_relationships[di].source),
                    normalize_name(st.unique_relationships[di].target),
                    normalized_relation>>},
             unique_relationships |-> st.unique_relationships,
             is_duplicate |-> FALSE]
       ELSE [relationship_set |-> st.relationship_set,
             unique_relationships |-> st.unique_relationships,
             is_duplicate |-> TRUE]

check_duplicate(st, rel, normalized_relation, di) ==
  IF di = 0
  THEN [relationship_set |-> st.relationship_set,
        unique_relationships |-> st.unique_relationships,
        is_duplicate |-> FALSE]
  ELSE IF \/ Len(rel.source) > Len(st.unique_relationships[di].source)
          \/ Len(rel.target) > Len(st.unique_relationships[di].target)
       THEN [relationship_set |->
               st.relationship_set \
                 {<<normalize_name(st.unique_relationships[di].source),
                    normalize_name(st.unique_relationships[di].target),
                    normalized_relation>>},
             unique_relationships |->
               SubSeq(st.unique_relationships, 1, di - 1)
               \o SubSeq(st.unique_relationships, di + 1,
                         Len(st.unique_relationships)),
             is_duplicate |-> FALSE]
       ELSE [relationship_set |-> st.relationship_set,
             unique_relationships |-> st.unique_relationships,
             is_duplicate |-> TRUE]

\* "if not is_duplicate": source and target are the pairs of match_endpoint
add_relationship(chk, rel, normalized_relation, source, target) ==
  IF \/ chk.is_duplicate
     \/ <<source[1], target[1], normalized_relation>> \in chk.relationship_set
  THEN [relationship_set |-> chk.relationship_set,
        unique_relationships |-> chk.unique_relationships]
  ELSE [relationship_set |->
          chk.relationship_set
            \cup {<<source[1], target[1], normalized_relation>>},
        unique_relationships |->
          Append(chk.unique_relationships,
                 [rel EXCEPT !.source = source[2], !.target = target[2]])]

\* whether the relationship duplicates existing_rel
duplicates(rel, existing_rel) ==
  /\ relation_upper(rel, RELATED_TO) = relation_upper(existing_rel, <<>>)
  /\ is_same_entity(rel.source, existing_rel.source)
  /\ is_same_entity(rel.target, existing_rel.target)

\* the body of the loop over the incoming relationships
dedup_relationship_step(st, rel, entity_map, normalized_to_canonical) ==
  IF ~rel.isdict \/ rel.source = <<>> \/ rel.target = <<>> THEN st
  ELSE add_relationship(
         check_duplicate(
           st, rel, relation_upper(rel, RELATED_TO),
           first_index(st.unique_relationships,
                       LAMBDA existing_rel : duplicates(rel, existing_rel))),
         rel, relation_upper(rel, RELATED_TO),
         resolve_endpoint(rel.source, entity_map, normalized_to_canonical),
         resolve_endpoint(rel.target, entity_map, normalized_to_canonical))

RECURSIVE dedup_relationship_loop(_, _, _, _)
dedup_relationship_loop(st, relationships, entity_map, normalized_to_canonical) ==
  IF relationships = <<>> THEN st
  ELSE dedup_relationship_loop(
         dedup_relationship_step(st, relationships[1], entity_map,
                                 normalized_to_canonical),
         Tail(relationships), entity_map, normalized_to_canonical)

\* relation.strip() raises AttributeError when the relation of a relationship
\* that reaches it is not a string
deduplicate_relationships_raises(relationships) ==
  \E i \in 1..Len(relationships) :
    LET rel == relationships[i] IN
      /\ rel.isdict
      /\ rel.source # <<>>
      /\ rel.target # <<>>
      /\ rel.relation # <<>>
      /\ ~rel.relation_is_str

\* the result when no relationship makes it raise
deduplicate_relationships(relationships, entity_map) ==
  dedup_relationship_loop(
    [relationship_set |-> {}, unique_relationships |-> <<>>],
    relationships, entity_map,
    build_normalized_to_canonical(<<>>, dict_keys(entity_map))
  ).unique_relationships

\* ------------------------------------------------------------------------
\* Constraint validator: _filter_invalid_entities
\* ------------------------------------------------------------------------
invalid_types == {"Date", "Event", "Document"}

date_patterns ==
  { <<"f","y"," ">>, <<"c","y">>, <<"m","a","r","c","h">>,
    <<"a","p","r","i","l">>, <<"m","a","y">>, <<"j","u","n","e">>,
    <<"j","u","l","y">>, <<"a","u","g","u","s","t">>,
    <<"s","e","p","t","e","m","b","e","r">>, <<"o","c","t","o","b","e","r">>,
    <<"n","o","v","e","m","b","e","r">>, <<"d","e","c","e","m","b","e","r">>,
    <<"j","a","n","u","a","r","y">>, <<"f","e","b","r","u","a","r","y">> }

year_patterns ==
  { <<"2","0","2","4">>, <<"2","0","2","5">>, <<"2","0","2","6">>,
    <<"2","0","2","3">>, <<"2","0","2","2">> }

\* whether the loop body appends the entity to valid_entities
entity_is_valid(entity) ==
  /\ entity.isdict
  /\ LET entity_id == lower(entity.id)
         is_date ==
           \/ \E pattern \in date_patterns : contains(entity_id, pattern)
           \/ /\ \E year \in year_patterns : contains(entity_id, year)
              /\ Len(entity_id) < 20
     IN /\ ~is_date
        /\ entity.type \notin invalid_types
        /\ ~(/\ entity.type = "Dollar Amount"
             /\ contains(entity.id, <<"%">>)
             /\ Len(entity.id) < 10)

filter_invalid_entities(entities) == SelectSeq(entities, entity_is_valid)

\* ------------------------------------------------------------------------
\* Constraint validator: _validate_and_fix_relationships
\* ------------------------------------------------------------------------
financial_relations ==
  { <<"H","A","S","_","R","E","V","E","N","U","E">>,
    <<"H","A","S","_","P","R","O","F","I","T">>,
    <<"H","A","S","_","A","S","S","E","T">>,
    <<"H","A","S","_","E","Q","U","I","T","Y">>,
    <<"H","A","S","_","D","E","B","T">>,
    <<"H","A","S","_","E","X","P","O","R","T","S">>,
    <<"H","A","S","_","C","S","R","_","C","O","N","T","R","I","B","U","T","I","O","N">> }

FACES_RISK == <<"F","A","C","E","S","_","R","I","S","K">>

OWNS == <<"O","W","N","S">>

invalid_source_types == {"Event", "Date", "Document", "Metric"}

invalid_target_types ==
  {"Person", "Company", "Event", "Date", "Document", "Location", "Risk",
   "Product", "Framework"}

\* financial_verdict without the final "source must be Company" branch
financial_verdict_any_source(source_type, target_type) ==
  IF target_type \in invalid_target_types THEN "drop"
  ELSE IF target_type = "Company" /\ source_type = "Dollar Amount" THEN "swap"
  ELSE IF source_type \in invalid_source_types THEN "drop"
  ELSE "pass"

\* financial_verdict without the invalid-target-type branch
financial_verdict_any_target(source_type, target_type) ==
  IF target_type = "Company" /\ source_type = "Dollar Amount" THEN "swap"
  ELSE IF source_type \in invalid_source_types THEN "drop"
  ELSE IF source_type # "Company" THEN "drop"
  ELSE "pass"

\* the branch for a financial relation: "drop" (continue), "swap" (source and
\* target exchanged in place) or "pass" (falls through to the later checks)
financial_verdict(source_type, target_type) ==
  IF target_type \in invalid_target_types THEN "drop"
  ELSE IF target_type = "Company" /\ source_type = "Dollar Amount" THEN "swap"
  ELSE IF source_type \in invalid_source_types THEN "drop"
  ELSE IF source_type # "Company" THEN "drop"
  ELSE "pass"

\* other_checks_keep without the OWNS target check
other_checks_keep_any_owned(relation_upper_, source_type, target_type) ==
  IF relation_upper_ = FACES_RISK /\ source_type # "Company" THEN FALSE
  ELSE IF relation_upper_ = OWNS
       THEN source_type = "Company"
       ELSE TRUE

\* the checks after the financial branch, on the types read before any swap:
\* TRUE when the relationship is appended to valid_relationships
other_checks_keep(relation_upper_, source_type, target_type) ==
  IF relation_upper_ = FACES_RISK /\ source_type # "Company" THEN FALSE
  ELSE IF relation_upper_ = OWNS
       THEN source_type = "Company" /\ target_type = "Company"
       ELSE TRUE

\* the loop body: the relationships it appends (none or one)
validate_relationship(rel, entity_map) ==
  IF ~rel.isdict \/ rel.source = <<>> \/ rel.target = <<>> THEN <<>>
  ELSE
    LET source_type == type_of(entity_map, rel.source)
        target_type == type_of(entity_map, rel.target)
        relation_upper_ == relation_upper(rel, RELATED_TO)
        verdict == IF relation_upper_ \in financial_relations
                   THEN financial_verdict(source_type, target_type)
                   ELSE "pass"
        rel1 == IF verdict = "swap"
                THEN [rel EXCEPT !.source = rel.target, !.target = rel.source]
                ELSE rel
    IN IF verdict = "drop" THEN <<>>
       ELSE IF other_checks_keep(relation_upper_, source_type, target_type)
            THEN <<rel1>>
            ELSE <<>>

RECURSIVE validate_and_fix_relationships(_, _)
validate_and_fix_relationships(relationships, entity_map) ==
  IF relationships = <<>> THEN <<>>
  ELSE validate_relationship(relationships[1], entity_map)
       \o validate_and_fix_relationships(Tail(relationships), entity_map)

\* ------------------------------------------------------------------------
\* Renderer: the node/edge construction of create_and_save_graph
\* ------------------------------------------------------------------------
\* the loop over data["entities"]: node id -> node type
RECURSIVE add_entity_nodes(_, _)
add_entity_nodes(node_types, entities) ==
  IF entities = <<>> THEN node_types
  ELSE LET entity == entities[1] IN
       add_entity_nodes(IF entity.isdict /\ entity.id # <<>>
                        THEN dict_set(node_types, entity.id, entity.type)
                        ELSE node_types,
                        Tail(entities))

\* add_missing_node that never adds the node
add_missing_node_never(node_types, endpoint) == node_types

\* "Add missing nodes if needed" for one endpoint
add_missing_node(node_types, endpoint) ==
  IF dict_has(node_types, endpoint) THEN node_types
  ELSE dict_set(node_types, endpoint, "default")

\* the loop over data["relationships"]; g holds the nodes and the edges
\* ((source, target) -> label)
RECURSIVE add_edges(_, _)
add_edges(g, relationships) ==
  IF relationships = <<>> THEN g
  ELSE
    LET rel == relationships[1]
        relation == IF rel.relation = <<>> THEN RELATED_TO ELSE rel.relation
        g1 == IF rel.source = <<>> \/ rel.target = <<>> THEN g
              ELSE [nodes |-> add_missing_node(
                                add_missing_node(g.nodes, rel.source),
                                rel.target),
                    edges |-> dict_set(g.edges, <<rel.source, rel.target>>,
                                       relation)]
    IN add_edges(g1, Tail(relationships))

\* iterating a "relationships" value that is not a list raises TypeError;
\* rel.get raises AttributeError on a relationship that is not a dict
create_graph_raises(data) ==
  \/ ~data.relationships_is_list
  \/ \E i \in 1..Len(data.relationships) : ~data.relationships[i].isdict

create_graph(data) ==
  add_edges([nodes |-> add_entity_nodes(<<>>, data.entities), edges |-> <<>>],
            data.relationships)

\* ------------------------------------------------------------------------
\* Segmenter used by analyze: _chunk_text, on the spans of the windows.
\* A text of length text_length is sliced at [start, min(end, text_length)).
\* ------------------------------------------------------------------------
Min(a, b) == IF a <= b THEN a ELSE b

RECURSIVE chunk_text_from(_, _, _, _)
chunk_text_from(start, text_length, chunk_size, overlap) ==
  IF ~(start < text_length) THEN <<>>
  ELSE LET end == start + chunk_size
           chunk == <<start, Min(end, text_length)>>
           next == start + chunk_size - overlap
       IN IF next >= text_length THEN <<chunk>>
          ELSE <<chunk>> \o chunk_text_from(next, text_length, chunk_size,
                                            overlap)

chunk_text(text_length, chunk_size, overlap) ==
  chunk_text_from(0, text_length, chunk_size, overlap)

\* ------------------------------------------------------------------------
\* Oracle replies and _process_single_chunk.  A reply is what
\* generate_extraction does on one call: it raises (transport_error), or it
\* returns text that clean_json_string cannot recover a JSON object from
\* (unparseable), a JSON object without one of the required keys
\* (missing_keys), a fenced JSON scalar (scalar_json), a text cut off inside
\* its JSON object, on which clean_json_string does not return (truncated),
\* or a JSON object with both keys (record), whose relationships value may
\* fail to be a list.
\* ------------------------------------------------------------------------
TransportError == [kind |-> "transport_error"]

Unparseable == [kind |-> "unparseable"]

MissingKeys == [kind |-> "missing_keys"]

ScalarJson == [kind |-> "scalar_json"]

Truncated == [kind |-> "truncated"]

Record(entities, relationships) ==
  [kind |-> "record", entities |-> entities, relationships |-> relationships,
   relationships_is_list |-> TRUE]

EmptyGraph == [entities |-> <<>>, relationships |-> <<>>]

\* generate_extraction re-raises the transport error; "entities" not in data
\* raises TypeError when data is a JSON number
process_single_chunk_raises(reply) ==
  reply.kind \in {"transport_error", "scalar_json"}

\* the fallback scan of clean_json_string never leaves an unmatched "{"
process_single_chunk_hangs(reply) == reply.kind = "truncated"

\* the value returned when it returns
process_single_chunk_filtered(reply) ==
  IF reply.kind = "record"
  THEN [entities |-> filter_invalid_entities(reply.entities),
        relationships |-> reply.relationships,
        relationships_is_list |-> reply.relationships_is_list]
  ELSE [entities |-> <<>>, relationships |-> <<>>,
        relationships_is_list |-> TRUE]

process_single_chunk(reply) ==
  IF reply.kind = "record"
  THEN [entities |-> reply.entities, relationships |-> reply.relationships,
        relationships_is_list |-> reply.relationships_is_list]
  ELSE [entities |-> <<>>, relationships |-> <<>>,
        relationships_is_list |-> TRUE]

\* the text clean_json_string returns when it recovers nothing
DefaultJson ==
  <<"{","\"","e","n","t","i","t","i","e","s","\"",":"," ","[","]",","," ",
    "\"","r","e","l","a","t","i","o","n","s","h","i","p","s","\"",":"," ",
    "[","]","}">>

Fence == <<"U+0060","U+0060","U+0060">>

JsonMarker == <<"U+0060","U+0060","U+0060","j","s","o","n">>

EntitiesKey == <<"e","n","t","i","t","i","e","s">>

RelationshipsKey == <<"r","e","l","a","t","i","o","n","s","h","i","p","s">>

TrueLiteral == <<"t","r","u","e">>

FalseLiteral == <<"f","a","l","s","e">>

NullLiteral == <<"n","u","l","l">>

\* ------------------------------------------------------------------------
\* json.loads on the texts of this model: a JSON value is an object, an
\* array, a string, an unsigned integer or one of true, false, null, with
\* JSON whitespace around the tokens.  The texts hold no backslash, sign,
\* fraction or exponent.  A parsed value is kept as its kind, the index
\* after its last character, its keys (object) or its string elements
\* (array), and its characters (string): what the key test of
\* _process_single_chunk reads of it.
\* ------------------------------------------------------------------------
Digits == {"0", "1", "2", "3", "4", "5", "6", "7", "8", "9"}

\* the character at 1-based index i, "" past the end
char_at(s, i) == IF i >= 1 /\ i <= Len(s) THEN s[i] ELSE ""

\* index of the first character at or after i that is not whitespace
skip_whitespace(s, i) == next_index(s, i, FALSE)

Value(kind, next, members, text) ==
  [ok |-> TRUE, kind |-> kind, next |-> next, members |-> members,
   text |-> text]

\* JSONDecodeError
Invalid ==
  [ok |-> FALSE, kind |-> "invalid", next |-> 0, members |-> {},
   text |-> <<>>]

\* a string starting at the quote at i: up to the next quote, with no
\* control character inside
parse_string(s, i) ==
  IF char_at(s, i) # "\"" \/ ~(\E j \in (i + 1)..Len(s) : s[j] = "\"")
  THEN Invalid
  ELSE LET close == CHOOSE j \in (i + 1)..Len(s) :
                      /\ s[j] = "\""
                      /\ \A k \in (i + 1)..(j - 1) : s[k] # "\""
       IN IF \E k \in (i + 1)..(close - 1) : s[k] \in {"\n", "\t"}
          THEN Invalid
          ELSE Value("string", close + 1, {}, SubSeq(s, i + 1, close - 1))

\* an unsigned integer starting at the digit at i: 0, or a run of digits
parse_number(s, i) ==
  IF s[i] = "0" THEN Value("number", i + 1, {}, <<>>)
  ELSE Value("number",
             IF \E j \in i..Len(s) : s[j] \notin Digits
             THEN CHOOSE j \in i..Len(s) :
                    /\ s[j] \notin Digits
                    /\ \A k \in i..(j - 1) : s[k] \in Digits
             ELSE Len(s) + 1,
             {}, <<>>)

\* true, false or null at i
parse_literal(s, i) ==
  IF occurs_at(s, TrueLiteral, i - 1) THEN Value("bool", i + 4, {}, <<>>)
  ELSE IF occurs_at(s, FalseLiteral, i - 1) THEN Value("bool", i + 5, {}, <<>>)
  ELSE IF occurs_at(s, NullLiteral, i - 1) THEN Value("null", i + 4, {}, <<>>)
  ELSE Invalid

RECURSIVE parse_value(_, _)
RECURSIVE parse_members(_, _, _)
RECURSIVE parse_elements(_, _, _)

\* the members of an object from the key at i on; keys holds the keys read
parse_member_value(s, key, value, keys) ==
  IF ~value.ok THEN Invalid
  ELSE IF char_at(s, skip_whitespace(s, value.next)) = "}"
  THEN Value("object", skip_whitespace(s, value.next) + 1,
             keys \cup {key.text}, <<>>)
  ELSE IF char_at(s, skip_whitespace(s, value.next)) = ","
  THEN parse_members(s, skip_whitespace(s, skip_whitespace(s, value.next) + 1),
                     keys \cup {key.text})
  ELSE Invalid

parse_member(s, key, keys) ==
  IF ~key.ok \/ char_at(s, skip_whitespace(s, key.next)) # ":" THEN Invalid
  ELSE parse_member_value(
         s, key,
         parse_value(s, skip_whitespace(s, skip_whitespace(s, key.next) + 1)),
         keys)

parse_members(s, i, keys) == parse_member(s, parse_string(s, i), keys)

\* the elements of an array from the value at i on; items holds the
\* elements read that are strings
parse_element(s, value, items) ==
  IF ~value.ok THEN Invalid
  ELSE IF char_at(s, skip_whitespace(s, value.next)) = "]"
  THEN Value("array", skip_whitespace(s, value.next) + 1,
             IF value.kind = "string" THEN items \cup {value.text} ELSE items,
             <<>>)
  ELSE IF char_at(s, skip_whitespace(s, value.next)) = ","
  THEN parse_elements(s, skip_whitespace(s, skip_whitespace(s, value.next) + 1),
                      IF value.kind = "string" THEN items \cup {value.text}
                      ELSE items)
  ELSE Invalid

parse_elements(s, i, items) == parse_element(s, parse_value(s, i), items)

\* the value that starts at i (whitespace already skipped)
parse_value(s, i) ==
  IF char_at(s, i) = "{"
  THEN (IF char_at(s, skip_whitespace(s, i + 1)) = "}"
        THEN Value("object", skip_whitespace(s, i + 1) + 1, {}, <<>>)
        ELSE parse_members(s, skip_whitespace(s, i + 1), {}))
  ELSE IF char_at(s, i) = "["
  THEN (IF char_at(s, skip_whitespace(s, i + 1)) = "]"
        THEN Value("array", skip_whitespace(s, i + 1) + 1, {}, <<>>)
        ELSE parse_elements(s, skip_whitespace(s, i + 1), {}))
  ELSE IF char_at(s, i) = "\"" THEN parse_string(s, i)
  ELSE IF char_at(s, i) \in Digits THEN parse_number(s, i)
  ELSE parse_literal(s, i)

\* json.loads(s): one value with nothing but whitespace around it
json_loads_at(s, value) ==
  IF value.ok /\ skip_whitespace(s, value.next) = Len(s) + 1
  THEN value
  ELSE Invalid

json_loads(s) == json_loads_at(s, parse_value(s, skip_whitespace(s, 1)))

\* ------------------------------------------------------------------------
\* clean_json_string (src/src/utils.py)
\* ------------------------------------------------------------------------
\* s.find(sub, start): 0-based offset of the first occurrence at or after
\* start, -1 when there is none
find_from(s, sub, start) ==
  IF \E i \in start..(Len(s) - Len(sub)) : occurs_at(s, sub, i)
  THEN CHOOSE i \in start..(Len(s) - Len(sub)) :
         /\ occurs_at(s, sub, i)
         /\ \A j \in start..(i - 1) : ~occurs_at(s, sub, j)
  ELSE -1

\* the offset after the opening fence: after the first "```json" of the
\* lower-cased text when there is one, after the first "```" otherwise
fence_start(json_str) ==
  IF contains(lower(json_str), JsonMarker)
  THEN find(lower(json_str), JsonMarker) + Len(JsonMarker)
  ELSE find(json_str, Fence) + 3

\* json_str[start_content:end_marker].strip() for the closing fence found
\* at or after start_content, if there is one
fenced_block(json_str, start_content, end_marker) ==
  IF end_marker = -1
  THEN [found |-> FALSE, text |-> <<>>]
  ELSE [found |-> TRUE,
        text |-> strip(SubSeq(json_str, start_content + 1, end_marker))]

fenced_interior(json_str, start_content) ==
  fenced_block(json_str, start_content,
               find_from(json_str, Fence, start_content))

\* the fence step: the interior is returned when it parses and replaces
\* json_str when it does not
fence_step_of(json_str, block) ==
  IF ~block.found THEN [returned |-> FALSE, text |-> json_str]
  ELSE [returned |-> json_loads(block.text).ok, text |-> block.text]

fence_step(json_str) ==
  IF ~contains(json_str, Fence)
  THEN [returned |-> FALSE, text |-> json_str]
  ELSE fence_step_of(json_str, fenced_interior(json_str, fence_start(json_str)))

\* brace_count after the characters at 0-based offsets start_idx..i
brace_count(s, start_idx, i) ==
  Cardinality({k \in start_idx..i : s[k + 1] = "{"})
    - Cardinality({k \in start_idx..i : s[k + 1] = "}"})

\* end_idx after the scan that starts at the "{" at start_idx: one past the
\* "}" that brings brace_count back to 0, start_idx when there is none
balanced_end(s, start_idx) ==
  IF \E i \in start_idx..(Len(s) - 1) : brace_count(s, start_idx, i) = 0
  THEN (CHOOSE i \in start_idx..(Len(s) - 1) :
          /\ brace_count(s, start_idx, i) = 0
          /\ \A j \in start_idx..(i - 1) : brace_count(s, start_idx, j) # 0)
       + 1
  ELSE start_idx

\* json_str[start_idx:end_idx].strip()
brace_candidate(s, start_idx, end_idx) ==
  strip(SubSeq(s, start_idx + 1, end_idx))

\* brace_count == 0 after the scan, and the candidate parses
candidate_parses(s, start_idx, end_idx) ==
  /\ end_idx > start_idx
  /\ json_loads(brace_candidate(s, start_idx, end_idx)).ok

\* the object that starts at the first "{", when it is balanced and parses
first_object_at(s, start_idx) ==
  IF start_idx # -1 /\ candidate_parses(s, start_idx, balanced_end(s, start_idx))
  THEN [returned |-> TRUE,
        text |-> brace_candidate(s, start_idx, balanced_end(s, start_idx))]
  ELSE [returned |-> FALSE, text |-> s]

first_object(s) == first_object_at(s, find(s, <<"{">>))

\* the code up to the fallback loop: what it returns, or the json_str the
\* loop runs on
before_fallback_of(fenced) ==
  IF fenced.returned THEN fenced ELSE first_object(fenced.text)

before_fallback(json_str) ==
  IF json_str = <<>> THEN [returned |-> TRUE, text |-> DefaultJson]
  ELSE before_fallback_of(fence_step(json_str))

\* one evaluation of the fallback loop's body: the loop state it leaves, or
\* the break
fallback_scan(s, start_idx, end_idx, candidates) ==
  [looping |-> TRUE,
   search_start |-> end_idx,
   candidates |->
     IF candidate_parses(s, start_idx, end_idx)
     THEN Append(candidates, brace_candidate(s, start_idx, end_idx))
     ELSE candidates]

fallback_from(s, start_idx, search_start, candidates) ==
  IF start_idx = -1
  THEN [looping |-> FALSE, search_start |-> search_start,
        candidates |-> candidates]
  ELSE fallback_scan(s, start_idx, balanced_end(s, start_idx), candidates)

fallback_iteration(s, search_start, candidates) ==
  fallback_from(s, find_from(s, <<"{">>, search_start), search_start,
                candidates)

\* max(json_candidates, key=len): the first of the longest candidates; the
\* default text when there is no candidate
largest_match(candidates) ==
  IF candidates = <<>> THEN DefaultJson
  ELSE candidates[CHOOSE i \in 1..Len(candidates) :
                    /\ \A j \in 1..Len(candidates) :
                         Len(candidates[j]) <= Len(candidates[i])
                    /\ \A j \in 1..(i - 1) :
                         Len(candidates[j]) < Len(candidates[i])]

\* ------------------------------------------------------------------------
\* The parse and key test of _process_single_chunk on the cleaned text
\* ------------------------------------------------------------------------
Data(kind, members, text) ==
  [kind |-> kind, members |-> members, text |-> text]

\* {"entities": [], "relationships": []}
EmptyData == Data("object", {EntitiesKey, RelationshipsKey}, <<>>)

\* key in data: a key of an object, an element of an array, a substring of
\* a string
key_in(key, data) ==
  IF data.kind = "string" THEN contains(data.text, key)
  ELSE key \in data.members

\* "entities" not in data raises TypeError on a number, a boolean and null
key_test_raises(data) == data.ok /\ data.kind \in {"number", "bool", "null"}

\* the key test with "and" for "or": the parsed data is returned when one of
\* the two keys is there
key_test_result_one_key(data) ==
  IF ~data.ok THEN EmptyData
  ELSE IF ~key_in(EntitiesKey, data) /\ ~key_in(RelationshipsKey, data)
  THEN EmptyData
  ELSE Data(data.kind, data.members, data.text)

\* what the stage returns when it does not raise
key_test_result(data) ==
  IF ~data.ok THEN EmptyData
  ELSE IF ~key_in(EntitiesKey, data) \/ ~key_in(RelationshipsKey, data)
  THEN EmptyData
  ELSE Data(data.kind, data.members, data.text)

\* all sequences over S of length at most n
SeqUpTo(S, n) == UNION {[1..k -> S] : k \in 0..n}

VARIABLES
  val_rels,      \* validator run: the relationships passed in
  val_out,       \* validator run: the list returned
  val_pc,        \* validator run: "input" or "done"
  merge_input,   \* merge run: the graph before the first merge pass
  merge_graph,   \* merge run: the graph after the passes made so far
  merge_prev,    \* merge run: the graph before the latest pass
  merge_pass,    \* merge run: number of merge passes made
  doc_len,       \* analyze: len(raw_text)
  pc,            \* analyze: position in analyze
  chunks,        \* analyze: the spans of the windows
  chunk_i,       \* analyze: index of the window being processed (1-based)
  attempt,       \* analyze: the retry loop's attempt
  final_graph,   \* analyze: the accumulator
  succeeded,     \* analyze: number of windows whose attempt reached the break
  attempts_log,  \* analyze: per window, the outcomes of its oracle calls
  window_graph,  \* analyze: the accumulator when the current window began
  raw_response,  \* analyze: the reply to the latest oracle call
  hint,          \* analyze: existing_entity_names of the latest oracle call
                 \* and the names get_extraction_prompt showed of them
  result,        \* analyze: the returned graph
  render_pc,     \* renderer: "idle", "rendered" or "raised"
  G,             \* renderer: the nodes and edges built
  seg_len,       \* _chunk_text: len(text)
  seg_size,      \* _chunk_text: chunk_size
  seg_overlap,   \* _chunk_text: overlap
  seg_start,     \* _chunk_text: start
  seg_chunks,    \* _chunk_text: the spans of the chunks appended so far
  seg_pc,        \* _chunk_text: "loop" or "done"
  tok_text,      \* chunk_text_fixed_size: text
  tok_size,      \* chunk_text_fixed_size: self.chunk_size
  tok_overlap,   \* chunk_text_fixed_size: self.chunk_overlap
  tok_start,     \* chunk_text_fixed_size: start
  tok_chunks,    \* chunk_text_fixed_size: the chunks appended so far
  tok_pc,        \* chunk_text_fixed_size: "loop" or "done"
  res_name1,     \* _is_same_entity: name1
  res_name2,     \* _is_same_entity: name2
  res_forward,   \* _is_same_entity(name1, name2), once called
  res_backward,  \* _is_same_entity(name2, name1), once called
  res_pc,        \* _is_same_entity: "input" or "done"
  cj_parts,      \* clean_json_string: the parts of the reply text
  cj_str,        \* clean_json_string: json_str
  cj_search_start, \* clean_json_string: search_start of the fallback loop
  cj_candidates, \* clean_json_string: the texts in json_candidates
  cj_out,        \* clean_json_string: the text returned
  cj_data,       \* _process_single_chunk: the value returned
  cj_pc,         \* "start", "fallback", "returned", "stage_returned",
                 \* "stage_raised"
  rd_relationships, \* _deduplicate_relationships: relationships
  rd_entity_map, \* _deduplicate_relationships: entity_map
  rd_out,        \* _deduplicate_relationships: the list returned
  rd_pc,         \* _deduplicate_relationships: "input" or "done"
  flt_entities,  \* _filter_invalid_entities: entities
  flt_out,       \* _filter_invalid_entities: the list returned
  flt_pc         \* _filter_invalid_entities: "input" or "done"

val_vars == <<val_rels, val_out, val_pc>>

merge_vars == <<merge_input, merge_graph, merge_prev, merge_pass>>

analyze_vars ==
  <<doc_len, pc, chunks, chunk_i, attempt, final_graph, succeeded,
    attempts_log, window_graph, raw_response, hint, result, render_pc, G>>

seg_vars == <<seg_len, seg_size, seg_overlap, seg_start, seg_chunks, seg_pc>>

\* the state of the graph pipeline and the state of the text functions
graph_vars == <<val_vars, merge_vars, analyze_vars>>

tok_vars == <<tok_text, tok_size, tok_overlap, tok_start, tok_chunks, tok_pc>>

res_vars == <<res_name1, res_name2, res_forward, res_backward, res_pc>>

cj_vars ==
  <<cj_parts, cj_str, cj_search_start, cj_candidates, cj_out, cj_data, cj_pc>>

text_vars == <<seg_vars, tok_vars, res_vars, cj_vars>>

rd_vars == <<rd_relationships, rd_entity_map, rd_out, rd_pc>>

flt_vars == <<flt_entities, flt_out, flt_pc>>

\* the state of the runs of one merge or validation function
unit_vars == <<rd_vars, flt_vars>>

vars == <<graph_vars, text_vars, unit_vars>>

ValIdle == val_rels = <<>> /\ val_out = <<>> /\ val_pc = "idle"

MergeIdle ==
  /\ merge_input = EmptyGraph
  /\ merge_graph = EmptyGraph
  /\ merge_prev = EmptyGraph
  /\ merge_pass = 0

SegIdle ==
  /\ seg_len = 0
  /\ seg_size = 0
  /\ seg_overlap = 0
  /\ seg_start = 0
  /\ seg_chunks = <<>>
  /\ seg_pc = "idle"

TokIdle ==
  /\ tok_text = <<>>
  /\ tok_size = 0
  /\ tok_overlap = 0
  /\ tok_start = 0
  /\ tok_chunks = <<>>
  /\ tok_pc = "idle"

ResIdle ==
  /\ res_name1 = <<>>
  /\ res_name2 = <<>>
  /\ res_forward = FALSE
  /\ res_backward = FALSE
  /\ res_pc = "idle"

CleanIdle ==
  /\ cj_parts = <<>>
  /\ cj_str = <<>>
  /\ cj_search_start = 0
  /\ cj_candidates = <<>>
  /\ cj_out = <<>>
  /\ cj_data = <<>>
  /\ cj_pc = "idle"

TextIdle == SegIdle /\ TokIdle /\ ResIdle /\ CleanIdle

RelIdle ==
  /\ rd_relationships = <<>>
  /\ rd_entity_map = <<>>
  /\ rd_out = <<>>
  /\ rd_pc = "idle"

FilterIdle == flt_entities = <<>> /\ flt_out = <<>> /\ flt_pc = "idle"

UnitIdle == RelIdle /\ FilterIdle

EmptyG == [nodes |-> <<>>, edges |-> <<>>]

\* the value analyze returns: the two lists, and whether the value under
\* "relationships" is a list at all
EmptyResult ==
  [entities |-> <<>>, relationships |-> <<>>, relationships_is_list |-> TRUE]

\* no oracle call has been made
NoReply == [kind |-> "none"]

\* no oracle call with a hint has been made
NoHint == [names |-> {}, sample |-> {}]

AnalyzeIdle ==
  /\ doc_len = 0
  /\ pc = "idle"
  /\ chunks = <<>>
  /\ chunk_i = 0
  /\ attempt = 0
  /\ final_graph = EmptyGraph
  /\ succeeded = 0
  /\ attempts_log = <<>>
  /\ window_graph = EmptyGraph
  /\ raw_response = NoReply
  /\ hint = NoHint
  /\ result = EmptyResult
  /\ render_pc = "idle"
  /\ G = EmptyG

\* ------------------------------------------------------------------------
\* SpecValidate: _validate_and_fix_relationships applied to a relationship
\* list, with an entity map holding one entity of each kind of type
\* ------------------------------------------------------------------------
MaxValRels == 1

ValEntities ==
  << Entity(RelianceIndustriesLimited, "Company", <<>>),
     Entity(Jio, "Company", <<>>),
     Entity(Rs81309Crore, "Dollar Amount", <<>>),
     Entity(MukeshAmbani, "Person", Chairman),
     Entity(MarketVolatility, "Risk", <<>>),
     Entity(NetProfitMargin, "Metric", <<>>) >>

ValEntityMap == build_entity_map(<<>>, ValEntities)

\* the ids in the map and one name that has no entity record
ValNames == Range(dict_keys(ValEntityMap)) \cup {TenB}

ValRelations == {HAS_PROFIT, has_revenue_, OWNS, FACES_RISK, CHAIRMAN_OF, <<>>}

ValRelUniverse ==
  {Rel(s, t, r) : s \in ValNames, t \in ValNames, r \in ValRelations}

InitValidate ==
  /\ val_rels \in SeqUpTo(ValRelUniverse, MaxValRels)
  /\ val_out = <<>>
  /\ val_pc = "input"
  /\ MergeIdle
  /\ AnalyzeIdle
  /\ TextIdle
  /\ UnitIdle

Validate ==
  /\ val_pc = "input"
  /\ val_out' = validate_and_fix_relationships(val_rels, ValEntityMap)
  /\ val_pc' = "done"
  /\ UNCHANGED <<val_rels, merge_vars, analyze_vars, text_vars, unit_vars>>

NextValidate == Validate

SpecValidate == InitValidate /\ [][NextValidate]_vars

\* ------------------------------------------------------------------------
\* SpecMerge: merge passes (entity dedup, entity map, relationship dedup, as
\* analyze runs them after each window and once more at the end) applied
\* repeatedly to a graph
\* ------------------------------------------------------------------------
MaxMergeEntities == 3

MaxMergeRels == 2

MaxMergePasses == 2

MergeEntityUniverse ==
  { Entity(ShriMukeshDAmbani, "Person", <<>>),
    Entity(ShriMukeshDAmbani, "Person", Chairman),
    Entity(MukeshAmbani, "Person", <<>>),
    Entity(MukeshAmbani, "Person", Chairman),
    Entity(RelianceRetail, "Company", <<>>),
    Entity(Jio, "Company", <<>>),
    Entity(Jio, "Company", Subsidiary),
    Entity(RelianceJioRetail, "Company", <<>>),
    Entity(<<>>, "Company", <<>>),
    NotADict }

MergeRelUniverse ==
  { Rel(RelianceRetail, Jio, OWNS),
    Rel(RelianceJioRetail, Jio, OWNS),
    Rel(MukeshAmbani, RelianceRetail, CHAIRMAN_OF),
    Rel(ShriMukeshDAmbani, RelianceRetail, CHAIRMAN_OF) }

\* one merge pass over a graph
merge_pass_of(graph) ==
  LET entities == deduplicate_entities(graph.entities)
      entity_map == build_entity_map(<<>>, entities)
  IN [entities |-> entities,
      relationships |-> deduplicate_relationships(graph.relationships,
                                                  entity_map)]

InitMerge ==
  /\ merge_input \in
       [entities : SeqUpTo(MergeEntityUniverse, MaxMergeEntities),
        relationships : SeqUpTo(MergeRelUniverse, MaxMergeRels)]
  /\ merge_graph = merge_input
  /\ merge_prev = merge_input
  /\ merge_pass = 0
  /\ ValIdle
  /\ AnalyzeIdle
  /\ TextIdle
  /\ UnitIdle

MergePass ==
  /\ merge_pass < MaxMergePasses
  /\ merge_prev' = merge_graph
  /\ merge_graph' = merge_pass_of(merge_graph)
  /\ merge_pass' = merge_pass + 1
  /\ UNCHANGED <<merge_input, val_vars, analyze_vars, text_vars, unit_vars>>

NextMerge == MergePass

SpecMerge == InitMerge /\ [][NextMerge]_vars

\* ------------------------------------------------------------------------
\* SpecAnalyze: one run of analyze on a document, each oracle call answered
\* by any reply, followed by the rendering of the returned graph (main)
\* ------------------------------------------------------------------------
\* the local max_text_length of analyze
max_text_length == 10000

\* Config.CHUNK_SIZE and Config.CHUNK_OVERLAP: config.py does not set them;
\* the values are the defaults of TextTokenizer, to which main passes the
\* same two Config attributes
CHUNK_SIZE == 4000

CHUNK_OVERLAP == 300

\* len(raw_text): a short document, the longest one processed directly, and
\* the shortest one that is chunked
DocLengths == {13, max_text_length, max_text_length + 1}

\* the reply of the mock oracle of the extraction test
MockReply ==
  Record(<< Entity(RIL, "Company", <<>>) >>, << Rel(RIL, TenB, REVENUE) >>)

\* a reply with a date entity, a reversed financial relationship and an OWNS
\* relationship from a risk
FinanceReply ==
  Record(<< Entity(RelianceIndustriesLimited, "Company", <<>>),
            Entity(Rs81309Crore, "Dollar Amount", <<>>),
            Entity(MarketVolatility, "Risk", <<>>),
            Entity(FY2024, "Date", <<>>) >>,
         << Rel(Rs81309Crore, RelianceIndustriesLimited, HAS_PROFIT),
            Rel(MarketVolatility, RelianceIndustriesLimited, OWNS) >>)

\* a reply naming one person twice, with a relationship that is a JSON string
PersonsReply ==
  Record(<< Entity(ShriMukeshDAmbani, "Person", <<>>),
            Entity(MukeshAmbani, "Person", Chairman) >>,
         << Rel(MukeshAmbani, RelianceIndustriesLimited, CHAIRMAN_OF),
            NotADict >>)

\* a reply with a relationship whose relation is a JSON number
NumberRelationReply ==
  Record(<< Entity(Jio, "Company", <<>>) >>,
         << [Rel(RelianceRetail, Jio, OWNS) EXCEPT !.relation_is_str = FALSE] >>)

\* a reply whose "relationships" value is a JSON number
NumberRelationshipsReply ==
  [Record(<< Entity(Jio, "Company", Subsidiary) >>, <<>>)
     EXCEPT !.relationships_is_list = FALSE]

Replies ==
  { TransportError, Unparseable, MissingKeys, ScalarJson, Truncated,
    MockReply, FinanceReply, PersonsReply, NumberRelationReply,
    NumberRelationshipsReply }

InitAnalyze ==
  /\ doc_len \in DocLengths
  /\ pc = "start"
  /\ chunks = <<>>
  /\ chunk_i = 0
  /\ attempt = 0
  /\ final_graph = EmptyGraph
  /\ succeeded = 0
  /\ attempts_log = <<>>
  /\ window_graph = EmptyGraph
  /\ raw_response = NoReply
  /\ hint = NoHint
  /\ result = EmptyResult
  /\ render_pc = "idle"
  /\ G = EmptyG
  /\ ValIdle
  /\ MergeIdle
  /\ TextIdle
  /\ UnitIdle

\* the length test and, for a long text, _chunk_text
AnalyzeStart ==
  /\ pc = "start"
  /\ IF doc_len <= max_text_length
     THEN /\ pc' = "direct"
          /\ UNCHANGED <<chunks, chunk_i, attempts_log>>
     ELSE /\ pc' = "chunking"
          /\ chunks' = chunk_text(doc_len, CHUNK_SIZE, CHUNK_OVERLAP)
          /\ chunk_i' = 1
          /\ attempts_log' = [i \in 1..Len(chunks') |-> <<>>]
  /\ UNCHANGED <<doc_len, attempt, final_graph, succeeded, window_graph,
                 raw_response, hint, result, render_pc, G, val_vars, merge_vars, text_vars,
                 unit_vars>>

\* return self._process_single_chunk(raw_text)
ProcessDirect ==
  /\ pc = "direct"
  /\ \E reply \in Replies :
       /\ raw_response' = reply
       /\ IF process_single_chunk_raises(reply)
          THEN /\ pc' = "raised"
               /\ result' = result
          ELSE IF process_single_chunk_hangs(reply)
          THEN /\ pc' = "hung"
               /\ result' = result
          ELSE /\ pc' = "done"
               /\ result' = process_single_chunk(reply)
  /\ UNCHANGED <<doc_len, chunks, chunk_i, attempt, final_graph, succeeded,
                 attempts_log, window_graph, hint, render_pc, G, val_vars,
                 merge_vars, text_vars, unit_vars>>

\* sample_entities = list(existing_entities)[:10]
SampleSize == 10

\* existing_entity_names: the normalized ids of the dicts of the entity list
existing_entity_names(graph) ==
  { normalize_name(graph.entities[i].id) :
      i \in {j \in 1..Len(graph.entities) : graph.entities[j].isdict} }

\* the names get_extraction_prompt can show: all of them when there are at
\* most 10, otherwise the first 10 in the iteration order of the set, which
\* can be any 10 of them
sample_entities(names) ==
  IF Cardinality(names) <= SampleSize THEN {names}
  ELSE {sample \in SUBSET names : Cardinality(sample) = SampleSize}

\* for attempt in range(2): the loop is left by the break after a success and
\* by the break of the handlers when attempt is 1
leaves_retry_loop_after_third(failed, attempt_) == ~failed \/ attempt_ = 2

leaves_retry_loop(failed, attempt_) == ~failed \/ attempt_ = 1

\* the accumulator as one attempt leaves it: the try body runs up to the
\* statement that raises (if any), and no handler undoes what ran before it
attempt_graph(graph, reply) ==
  LET chunk_result == process_single_chunk(reply)
      entities1 == graph.entities \o chunk_result.entities
      relationships1 == graph.relationships \o chunk_result.relationships
      entities2 == deduplicate_entities(entities1)
      entity_map == build_entity_map(<<>>, entities2)
  IN IF process_single_chunk_raises(reply) THEN graph
     ELSE IF ~chunk_result.relationships_is_list
          THEN [graph EXCEPT !.entities = entities1]
     ELSE IF deduplicate_relationships_raises(relationships1)
          THEN [entities |-> entities2, relationships |-> relationships1]
     ELSE [entities |-> entities2,
           relationships |->
             deduplicate_relationships(relationships1, entity_map)]

\* whether one attempt ends in one of the two handlers
attempt_fails(graph, reply) ==
  \/ process_single_chunk_raises(reply)
  \/ ~process_single_chunk(reply).relationships_is_list
  \/ deduplicate_relationships_raises(
       graph.relationships \o process_single_chunk(reply).relationships)

\* one attempt of the retry loop on the current window: the oracle call, the
\* try body up to the statement that raises (if any), then the break or the
\* next attempt
AttemptChunk ==
  /\ pc = "chunking"
  /\ \E sample \in sample_entities(existing_entity_names(final_graph)) :
       hint' = [names |-> existing_entity_names(final_graph),
                sample |-> sample]
  /\ \E reply \in Replies :
       IF process_single_chunk_hangs(reply)
       THEN /\ raw_response' = reply
            /\ pc' = "hung"
            /\ attempts_log' =
                 [attempts_log EXCEPT ![chunk_i] = Append(@, "hung")]
            /\ UNCHANGED <<final_graph, succeeded, attempt, chunk_i,
                           window_graph>>
       ELSE LET failed == attempt_fails(final_graph, reply)
            IN /\ raw_response' = reply
               /\ final_graph' = attempt_graph(final_graph, reply)
               /\ succeeded' = IF failed THEN succeeded ELSE succeeded + 1
               /\ attempts_log' =
                    [attempts_log EXCEPT ![chunk_i] =
                       Append(@, IF failed THEN "failed" ELSE "ok")]
               /\ IF ~leaves_retry_loop(failed, attempt)
                  THEN /\ attempt' = attempt + 1
                       /\ UNCHANGED <<chunk_i, pc, window_graph>>
                  ELSE /\ attempt' = 0
                       /\ window_graph' = final_graph'
                       /\ IF chunk_i < Len(chunks)
                          THEN chunk_i' = chunk_i + 1 /\ pc' = pc
                          ELSE chunk_i' = chunk_i /\ pc' = "final"
  /\ UNCHANGED <<doc_len, chunks, result, render_pc, G, val_vars, merge_vars,
                 text_vars, unit_vars>>

\* the final pass: filter, entity dedup, entity map, relationship dedup,
\* relationship validation, return
FinalPass ==
  /\ pc = "final"
  /\ LET entities1 == filter_invalid_entities(final_graph.entities)
         entities2 == deduplicate_entities(entities1)
         entity_map == build_entity_map(<<>>, entities2)
     IN IF deduplicate_relationships_raises(final_graph.relationships)
        THEN /\ pc' = "raised"
             /\ final_graph' = [final_graph EXCEPT !.entities = entities2]
             /\ result' = result
        ELSE LET relationships1 ==
                   deduplicate_relationships(final_graph.relationships,
                                             entity_map)
                 relationships2 ==
                   validate_and_fix_relationships(relationships1, entity_map)
             IN /\ pc' = "done"
                /\ final_graph' = [entities |-> entities2,
                                   relationships |-> relationships2]
                /\ result' = [entities |-> entities2,
                              relationships |-> relationships2,
                              relationships_is_list |-> TRUE]
  /\ UNCHANGED <<doc_len, chunks, chunk_i, attempt, succeeded, attempts_log,
                 window_graph, raw_response, hint, render_pc, G, val_vars, merge_vars, text_vars,
                 unit_vars>>

\* main hands the returned graph to create_and_save_graph
Render ==
  /\ pc = "done"
  /\ render_pc = "idle"
  /\ IF create_graph_raises(result)
     THEN render_pc' = "raised" /\ G' = G
     ELSE render_pc' = "rendered" /\ G' = create_graph(result)
  /\ UNCHANGED <<doc_len, pc, chunks, chunk_i, attempt, final_graph,
                 succeeded, attempts_log, window_graph, raw_response, hint,
                 result, val_vars,
                 merge_vars, text_vars, unit_vars>>

NextAnalyze ==
  \/ AnalyzeStart
  \/ ProcessDirect
  \/ AttemptChunk
  \/ FinalPass
  \/ Render

SpecAnalyze == InitAnalyze /\ [][NextAnalyze]_vars

\* ------------------------------------------------------------------------
\* SpecSegment: the while loop of _chunk_text, one iteration per step, on a
\* text of any length with any chunk_size and overlap
\* ------------------------------------------------------------------------
MaxSegLen == 6

MaxSegSize == 4

MaxSegOverlap == 4

\* the loop is followed for at most this many chunks
MaxSegChunks == 8

\* a text of three windows under the configured chunk_size and overlap
ExampleLength == 9000

\* a slice bound as text[a:b] reads it: counted from the end when negative,
\* then clipped to the text
slice_index(i, text_length) ==
  IF i < 0
  THEN (IF i + text_length < 0 THEN 0 ELSE i + text_length)
  ELSE (IF i > text_length THEN text_length ELSE i)

\* the span [lo, hi) of text[start:end]
slice_span(start, end, text_length) ==
  LET lo == slice_index(start, text_length)
      hi == slice_index(end, text_length)
  IN [lo |-> lo, hi |-> IF hi < lo THEN lo ELSE hi]

\* end = start + chunk_size
chunk_end_short(start, chunk_size) == start + chunk_size - 1

chunk_end(start, chunk_size) == start + chunk_size

\* start += chunk_size - overlap
next_start_gap(start, chunk_size, overlap) == start + chunk_size + overlap

next_start(start, chunk_size, overlap) == start + chunk_size - overlap

SegParams ==
  ((0..MaxSegLen) \X (1..MaxSegSize) \X (0..MaxSegOverlap))
    \cup {<<ExampleLength, CHUNK_SIZE, CHUNK_OVERLAP>>}

InitSegment ==
  /\ \E p \in SegParams :
       /\ seg_len = p[1]
       /\ seg_size = p[2]
       /\ seg_overlap = p[3]
  /\ seg_start = 0
  /\ seg_chunks = <<>>
  /\ seg_pc = "loop"
  /\ ValIdle
  /\ MergeIdle
  /\ AnalyzeIdle
  /\ TokIdle
  /\ ResIdle
  /\ CleanIdle
  /\ UnitIdle

\* the while condition is false: return chunks
ChunkLoopExit ==
  /\ seg_pc = "loop"
  /\ ~(seg_start < seg_len)
  /\ seg_pc' = "done"
  /\ UNCHANGED <<seg_len, seg_size, seg_overlap, seg_start, seg_chunks,
                 graph_vars, unit_vars, tok_vars, res_vars, cj_vars>>

\* one iteration: append text[start:end], move start, break if start has
\* reached the end of the text
ChunkIteration ==
  /\ seg_pc = "loop"
  /\ seg_start < seg_len
  /\ Len(seg_chunks) < MaxSegChunks
  /\ seg_chunks' =
       Append(seg_chunks,
              [start |-> seg_start,
               span |-> slice_span(seg_start, chunk_end(seg_start, seg_size),
                                   seg_len)])
  /\ seg_start' = next_start(seg_start, seg_size, seg_overlap)
  /\ seg_pc' = IF seg_start' >= seg_len THEN "done" ELSE "loop"
  /\ UNCHANGED <<seg_len, seg_size, seg_overlap, graph_vars, unit_vars,
                 tok_vars, res_vars, cj_vars>>

NextSegment ==
  \/ ChunkLoopExit
  \/ ChunkIteration

SpecSegment == InitSegment /\ [][NextSegment]_vars

\* ------------------------------------------------------------------------
\* SpecTokenize: the while loop of TextTokenizer.chunk_text_fixed_size, one
\* iteration per step, on short texts of letters, spaces and newlines and
\* on the text of the extraction test with the default chunk_size and
\* chunk_overlap
\* ------------------------------------------------------------------------
MaxTokLen == 7

MaxTokSize == 6

MaxTokOverlap == 2

\* the loop is followed for at most this many chunks
MaxTokChunks == 9

SomeRawText == <<"S","o","m","e"," ","r","a","w"," ","t","e","x","t">>

TokChars == {"a", " ", "\n"}

\* s.rfind(c): the highest 0-based index of the character c in s, or -1
rfind(s, c) ==
  IF \E i \in 1..Len(s) : s[i] = c
  THEN (CHOOSE i \in 1..Len(s) :
          s[i] = c /\ \A j \in (i + 1)..Len(s) : s[j] # c) - 1
  ELSE -1

Max(a, b) == IF a >= b THEN a ELSE b

\* max(last_space, last_newline)
break_point(chunk_text_) == Max(rfind(chunk_text_, " "), rfind(chunk_text_, "\n"))

\* break_point != -1 and break_point > self.chunk_size * 0.8
breaks_cleanly(chunk_text_, chunk_size) ==
  /\ break_point(chunk_text_) # -1
  /\ 10 * break_point(chunk_text_) > 8 * chunk_size

\* the end of the chunk that starts at start (0-based, exclusive)
fixed_chunk_end(text, start, chunk_size) ==
  LET end == Min(start + chunk_size, Len(text))
      chunk_text_ == SubSeq(text, start + 1, end)
  IN IF end < Len(text) /\ breaks_cleanly(chunk_text_, chunk_size)
     THEN start + break_point(chunk_text_)
     ELSE end

\* start = end - self.chunk_overlap; if start < 0: start = 0
fixed_next_start(end, chunk_overlap) ==
  IF end - chunk_overlap < 0 THEN 0 ELSE end - chunk_overlap

TokParams ==
  (SeqUpTo(TokChars, MaxTokLen) \X (1..MaxTokSize) \X (0..MaxTokOverlap))
    \cup {<<SomeRawText, CHUNK_SIZE, CHUNK_OVERLAP>>}

InitTokenize ==
  /\ \E p \in TokParams :
       /\ tok_text = p[1]
       /\ tok_size = p[2]
       /\ tok_overlap = p[3]
  /\ tok_start = 0
  /\ tok_chunks = <<>>
  /\ tok_pc = "loop"
  /\ ValIdle
  /\ MergeIdle
  /\ AnalyzeIdle
  /\ SegIdle
  /\ ResIdle
  /\ CleanIdle
  /\ UnitIdle

\* the while condition is false: return chunks
FixedLoopExit ==
  /\ tok_pc = "loop"
  /\ ~(tok_start < Len(tok_text))
  /\ tok_pc' = "done"
  /\ UNCHANGED <<tok_text, tok_size, tok_overlap, tok_start, tok_chunks,
                 graph_vars, unit_vars, seg_vars, res_vars, cj_vars>>

\* one iteration: cut the chunk (at the last space or newline when that is
\* near its end), append it and move start back by the overlap.  A chunk
\* carries its span [start, end) next to the three keys of the code.
FixedIteration ==
  /\ tok_pc = "loop"
  /\ tok_start < Len(tok_text)
  /\ Len(tok_chunks) < MaxTokChunks
  /\ LET end == fixed_chunk_end(tok_text, tok_start, tok_size)
         chunk_text_ == SubSeq(tok_text, tok_start + 1, end)
     IN /\ tok_chunks' =
             Append(tok_chunks,
                    [text |-> strip(chunk_text_), size |-> Len(chunk_text_),
                     chunk_index |-> Len(tok_chunks),
                     start |-> tok_start, end |-> end])
        /\ tok_start' = fixed_next_start(end, tok_overlap)
  /\ UNCHANGED <<tok_text, tok_size, tok_overlap, tok_pc, graph_vars,
                 unit_vars, seg_vars, res_vars, cj_vars>>

NextTokenize ==
  \/ FixedLoopExit
  \/ FixedIteration

SpecTokenize == InitTokenize /\ [][NextTokenize]_vars

\* ------------------------------------------------------------------------
\* SpecResolve: _is_same_entity called on a pair of names in both orders
\* ------------------------------------------------------------------------
InitResolve ==
  /\ res_name1 \in KnownNames \cup {<<>>}
  /\ res_name2 \in KnownNames \cup {<<>>}
  /\ res_forward = FALSE
  /\ res_backward = FALSE
  /\ res_pc = "input"
  /\ ValIdle
  /\ MergeIdle
  /\ AnalyzeIdle
  /\ SegIdle
  /\ TokIdle
  /\ CleanIdle
  /\ UnitIdle

Resolve ==
  /\ res_pc = "input"
  /\ res_forward' = is_same_entity(res_name1, res_name2)
  /\ res_backward' = is_same_entity(res_name2, res_name1)
  /\ res_pc' = "done"
  /\ UNCHANGED <<res_name1, res_name2, graph_vars, unit_vars, seg_vars,
                 tok_vars, cj_vars>>

NextResolve == Resolve

SpecResolve == InitResolve /\ [][NextResolve]_vars

\* ------------------------------------------------------------------------
\* SpecRelDedup: _deduplicate_relationships called on a relationship list
\* and an entity map
\* ------------------------------------------------------------------------
MaxRdRels == 2

MaxRdEntities == 2

owns_ == <<"o","w","n","s"," ">>

RdRelUniverse ==
  { Rel(MukeshAmbani, Jio, CHAIRMAN_OF),
    Rel(ShriMukeshDAmbani, Jio, CHAIRMAN_OF),
    Rel(Jio, RelianceRetail, OWNS),
    Rel(JioLtd, RelianceRetail, owns_),
    Rel(Jio, RelianceRetail, <<>>),
    Rel(MrDot, Jio, OWNS),
    Rel(<<>>, Jio, OWNS),
    [Rel(Jio, RelianceRetail, OWNS) EXCEPT !.relation_is_str = FALSE],
    NotADict }

RdEntityUniverse ==
  { Entity(ShriMukeshDAmbani, "Person", <<>>),
    Entity(MukeshAmbani, "Person", <<>>),
    Entity(Jio, "Company", <<>>),
    Entity(JioLtd, "Company", <<>>),
    Entity(RelianceRetail, "Company", <<>>) }

\* the entity maps: id -> entity, in insertion order
RdEntityMaps ==
  { build_entity_map(<<>>, entities) :
      entities \in SeqUpTo(RdEntityUniverse, MaxRdEntities) }

InitRelDedup ==
  /\ rd_relationships \in SeqUpTo(RdRelUniverse, MaxRdRels)
  /\ rd_entity_map \in RdEntityMaps
  /\ rd_out = <<>>
  /\ rd_pc = "input"
  /\ ValIdle
  /\ MergeIdle
  /\ AnalyzeIdle
  /\ TextIdle
  /\ FilterIdle

DeduplicateRelationships ==
  /\ rd_pc = "input"
  /\ IF deduplicate_relationships_raises(rd_relationships)
     THEN rd_pc' = "raised" /\ rd_out' = rd_out
     ELSE /\ rd_pc' = "done"
          /\ rd_out' = deduplicate_relationships(rd_relationships,
                                                 rd_entity_map)
  /\ UNCHANGED <<rd_relationships, rd_entity_map, flt_vars, graph_vars,
                 text_vars>>

NextRelDedup == DeduplicateRelationships

SpecRelDedup == InitRelDedup /\ [][NextRelDedup]_vars

\* ------------------------------------------------------------------------
\* SpecFilter: _filter_invalid_entities called on an entity list
\* ------------------------------------------------------------------------
MaxFltEntities == 2

CurrencyRisk == <<"C","u","r","r","e","n","c","y"," ","R","i","s","k">>

March2024 == <<"M","a","r","c","h"," ","2","0","2","4">>

MayfairHoldings == <<"M","a","y","f","a","i","r"," ","H","o","l","d","i","n","g","s">>

TwelvePercent == <<"1","2",".","5","%">>

FltEntityUniverse ==
  { Entity(FY2024, "Date", <<>>),
    Entity(FY2024, "Metric", <<>>),
    Entity(March2024, "default", <<>>),
    Entity(MarketVolatility, "Risk", <<>>),
    Entity(CurrencyRisk, "Risk", <<>>),
    Entity(MayfairHoldings, "Company", <<>>),
    Entity(Jio, "Company", Subsidiary),
    Entity(Jio, "Event", <<>>),
    Entity(TwelvePercent, "Dollar Amount", <<>>),
    Entity(Rs81309Crore, "Dollar Amount", <<>>),
    Entity(<<>>, "Company", <<>>),
    NotADict }

InitFilter ==
  /\ flt_entities \in SeqUpTo(FltEntityUniverse, MaxFltEntities)
  /\ flt_out = <<>>
  /\ flt_pc = "input"
  /\ ValIdle
  /\ MergeIdle
  /\ AnalyzeIdle
  /\ TextIdle
  /\ RelIdle

FilterInvalidEntities ==
  /\ flt_pc = "input"
  /\ flt_out' = filter_invalid_entities(flt_entities)
  /\ flt_pc' = "done"
  /\ UNCHANGED <<flt_entities, rd_vars, graph_vars, text_vars>>

NextFilter == FilterInvalidEntities

SpecFilter == InitFilter /\ [][NextFilter]_vars

\* the parts the replies of SpecClean are made of
\* JSON objects
ObjectA == <<"{","\"","a","\"",":","5","}">>

ObjectB == <<"{","\"","b","\"",":","5","}"," ">>

ObjectBB == <<" ","{","\"","b","b","\"",":","5","5","}">>

EmptyRecord ==
  <<"{","\"","e","n","t","i","t","i","e","s","\"",":","[","]",",","\"","r",
    "e","l","a","t","i","o","n","s","h","i","p","s","\"",":","[","]","}">>

\* an object with one of the two required keys, its list not empty
EntitiesOnly ==
  <<"{","\"","e","n","t","i","t","i","e","s","\"",":","[","5","]","}">>

\* JSON values that are not objects
FencedNumber == <<"\n","5","\n">>

ArrayOfNumber == <<"[","5","]">>

ArrayOfKeys ==
  <<"[","\"","e","n","t","i","t","i","e","s","\"",",","\"","r","e","l","a",
    "t","i","o","n","s","h","i","p","s","\"","]">>

StringA == <<"\"","a","\"">>

\* texts that are not JSON
OpenBrace == <<"{">>

TruncatedObject == <<"{","\"","a","\"",":">>

BracedWord == <<"{","a","}">>

\* a balanced text that does not parse, with an object inside it
NestedObject == <<"{","a"," ","{","\"","a","\"",":","5","}","}">>

\* fence-free prose
ProseOk == <<"o","k"," ">>

ProseOkAfter == <<" ","o","k">>

ProseDottedI == <<"U+0130"," ">>

\* ------------------------------------------------------------------------
\* SpecClean: clean_json_string on an oracle reply, then the parse and key
\* test of _process_single_chunk.  A reply is prose, an opening fence, a
\* body, a closing fence and prose, each of which may be missing.
\* ------------------------------------------------------------------------
ProseBefore == {<<>>, ProseOk, ProseDottedI, ObjectB}

OpeningFences == {<<>>, JsonMarker, Fence}

Bodies ==
  { <<>>, ObjectA, EmptyRecord, EntitiesOnly, FencedNumber, ArrayOfNumber,
    ArrayOfKeys, StringA, NullLiteral, OpenBrace, TruncatedObject, BracedWord,
    NestedObject }

ClosingFences == {<<>>, Fence}

ProseAfter == {<<>>, ProseOkAfter, ObjectBB, OpenBrace}

\* the reply text
reply_text(parts) ==
  parts.before \o parts.open \o parts.body \o parts.close \o parts.after

InitClean ==
  /\ cj_parts \in [before : ProseBefore, open : OpeningFences, body : Bodies,
                   close : ClosingFences, after : ProseAfter]
  /\ cj_str = reply_text(cj_parts)
  /\ cj_search_start = 0
  /\ cj_candidates = <<>>
  /\ cj_out = <<>>
  /\ cj_data = EmptyData
  /\ cj_pc = "start"
  /\ ValIdle
  /\ MergeIdle
  /\ AnalyzeIdle
  /\ SegIdle
  /\ TokIdle
  /\ ResIdle
  /\ UnitIdle

\* from the entry of clean_json_string to its first return, or to the
\* fallback loop
CleanStart ==
  /\ cj_pc = "start"
  /\ LET first == before_fallback(cj_str)
     IN IF first.returned
        THEN /\ cj_pc' = "returned"
             /\ cj_out' = first.text
             /\ cj_str' = cj_str
        ELSE /\ cj_pc' = "fallback"
             /\ cj_out' = cj_out
             /\ cj_str' = first.text
  /\ UNCHANGED <<cj_parts, cj_search_start, cj_candidates, cj_data,
                 graph_vars, unit_vars, seg_vars, tok_vars, res_vars>>

\* one evaluation of the body of while True; on the break, the return of
\* the largest candidate or of the default text
FallbackIteration ==
  /\ cj_pc = "fallback"
  /\ LET next == fallback_iteration(cj_str, cj_search_start, cj_candidates)
     IN /\ cj_search_start' = next.search_start
        /\ cj_candidates' = next.candidates
        /\ IF next.looping
           THEN cj_pc' = "fallback" /\ cj_out' = cj_out
           ELSE cj_pc' = "returned" /\ cj_out' = largest_match(cj_candidates)
  /\ UNCHANGED <<cj_parts, cj_str, cj_data, graph_vars, unit_vars, seg_vars,
                 tok_vars, res_vars>>

\* json.loads(cleaned_response) and the key test
ParseReply ==
  /\ cj_pc = "returned"
  /\ IF key_test_raises(json_loads(cj_out))
     THEN cj_pc' = "stage_raised" /\ cj_data' = cj_data
     ELSE /\ cj_pc' = "stage_returned"
          /\ cj_data' = key_test_result(json_loads(cj_out))
  /\ UNCHANGED <<cj_parts, cj_str, cj_search_start, cj_candidates, cj_out,
                 graph_vars, unit_vars, seg_vars, tok_vars, res_vars>>

NextClean ==
  \/ CleanStart
  \/ FallbackIteration
  \/ ParseReply

SpecClean == InitClean /\ [][NextClean]_vars

\* the ids of the entities of a returned graph
entity_ids(graph) ==
  {graph.entities[i].id :
     i \in {k \in 1..Len(graph.entities) : graph.entities[k].isdict}}

\* C1 (as claimed): whatever the length of the document, the graph analyze
\* returns has no entity of type Date, Event or Document, and the
\* relationship validator would drop or change none of its relationships.
C1_ReturnedGraphIsValidated ==
  pc = "done" =>
    /\ \A i \in 1..Len(result.entities) :
         result.entities[i].isdict
         => result.entities[i].type \notin invalid_types
    /\ validate_and_fix_relationships(
         result.relationships, build_entity_map(<<>>, result.entities))
       = result.relationships

\* C2 (as claimed): in the graph analyze returns, the source and the target
\* of every relationship are ids of entities of the returned entities list.
C2_ReturnedEndpointsAreEntities ==
  pc = "done" =>
    \A i \in 1..Len(result.relationships) :
      result.relationships[i].isdict
      => /\ result.relationships[i].source \in entity_ids(result)
         /\ result.relationships[i].target \in entity_ids(result)

\* C2 (amended): in the node/edge graph create_and_save_graph builds from
\* the returned graph, the source and the target of every edge are nodes,
\* every relationship with a source and a target has its endpoints among the
\* nodes, and an endpoint that is no entity id is a node of type "default".
C2_RenderedEndpointsAreNodes ==
  render_pc = "rendered" =>
    /\ \A i \in 1..Len(G.edges) :
         /\ dict_has(G.nodes, G.edges[i].key[1])
         /\ dict_has(G.nodes, G.edges[i].key[2])
    /\ \A i \in 1..Len(result.relationships) :
         LET rel == result.relationships[i] IN
           (rel.source # <<>> /\ rel.target # <<>>)
           => \A endpoint \in {rel.source, rel.target} :
                /\ dict_has(G.nodes, endpoint)
                /\ endpoint \notin entity_ids(result)
                   => G.nodes[dict_index(G.nodes, endpoint)].value = "default"

\* a graph was rendered with a stub node for an endpoint that is no entity
C2_Witness ==
  /\ render_pc = "rendered"
  /\ \E i \in 1..Len(G.nodes) :
       /\ G.nodes[i].value = "default"
       /\ G.nodes[i].key \notin entity_ids(result)
       /\ \E j \in 1..Len(G.edges) : G.nodes[i].key = G.edges[j].key[2]

\* C3 (as claimed): after a merge pass no two entities of the graph have ids
\* that is_same_entity judges to be the same entity.
C3_SurvivorsPairwiseDistinct ==
  merge_pass >= 1 =>
    \A i, j \in 1..Len(merge_graph.entities) :
      i # j => ~is_same_entity(merge_graph.entities[i].id,
                               merge_graph.entities[j].id)

\* C4 (as claimed): a merge pass applied to a graph that a merge pass
\* produced leaves the number of entities and of relationships unchanged.
C4_MergeIdempotent ==
  merge_pass >= 2 =>
    /\ Len(merge_graph.entities) = Len(merge_prev.entities)
    /\ Len(merge_graph.relationships) = Len(merge_prev.relationships)

\* C5 (as claimed): when two entities with equivalent ids, exactly one of
\* which has non-empty metadata, are deduplicated, the output is one entity
\* and it carries the non-empty metadata, in either arrival order.
C5_MetadataWins ==
  LET in == merge_input.entities IN
  (/\ merge_pass = 1
   /\ Len(in) = 2
   /\ in[1].isdict /\ in[2].isdict
   /\ in[1].id # <<>> /\ in[2].id # <<>>
   /\ is_same_entity(in[1].id, in[2].id)
   /\ (in[1].metadata = <<>>) # (in[2].metadata = <<>>))
  => /\ Len(merge_graph.entities) = 1
     /\ merge_graph.entities[1].metadata =
          (IF in[1].metadata # <<>> THEN in[1].metadata ELSE in[2].metadata)

\* the relationships of a list whose upper-cased relation is a financial kind
IsFinancial(rel) == relation_upper(rel, RELATED_TO) \in financial_relations

ValSourceType(rel) == type_of(ValEntityMap, rel.source)

ValTargetType(rel) == type_of(ValEntityMap, rel.target)

\* C6 (as claimed): a financial relationship passed in with a source of type
\* Dollar Amount and a target of type Company is in the output with source
\* and target swapped.
C6_ReversedFinancialIsSwapped ==
  val_pc = "done" =>
    \A i \in 1..Len(val_rels) :
      (/\ IsFinancial(val_rels[i])
       /\ ValSourceType(val_rels[i]) = "Dollar Amount"
       /\ ValTargetType(val_rels[i]) = "Company")
      => \E j \in 1..Len(val_out) :
           val_out[j] = [val_rels[i] EXCEPT !.source = val_rels[i].target,
                                            !.target = val_rels[i].source]

\* C7: every financial relationship in the validator's output has a source
\* whose type in the entity map is Company.
C7_FinancialSourceIsCompany ==
  val_pc = "done" =>
    \A i \in 1..Len(val_out) :
      IsFinancial(val_out[i]) => ValSourceType(val_out[i]) = "Company"

C7_Witness ==
  /\ val_pc = "done"
  /\ \E i \in 1..Len(val_out) : IsFinancial(val_out[i])

C9_OwnsAndFacesRiskFromCompany ==
  val_pc = "done" =>
    /\ \A i \in 1..Len(val_out) :
         LET r == relation_upper(val_out[i], RELATED_TO) IN
           /\ r = OWNS => /\ ValSourceType(val_out[i]) = "Company"
                          /\ ValTargetType(val_out[i]) = "Company"
           /\ r = FACES_RISK => ValSourceType(val_out[i]) = "Company"
    /\ \A i \in 1..Len(val_rels) :
         (relation_upper(val_rels[i], RELATED_TO) = OWNS
          /\ ValSourceType(val_rels[i]) = "Risk")
         => \A j \in 1..Len(val_out) : val_out[j] # val_rels[i]

C9_Witness ==
  /\ val_pc = "done"
  /\ \E i \in 1..Len(val_out) : relation_upper(val_out[i], RELATED_TO) = OWNS

\* C10 (as claimed): no exception escapes analyze, and a chunked run in which
\* no window succeeded returns the graph with no entities and no
\* relationships.
C10_NoExceptionEscapes ==
  /\ pc # "raised"
  /\ (pc = "done" /\ doc_len > max_text_length /\ succeeded = 0)
     => /\ result.entities = <<>>
        /\ result.relationships = <<>>
        /\ result.relationships_is_list

\* a window's retry loop is over: its last call succeeded, or it was the
\* second call and it failed
window_finished(log) ==
  /\ log # <<>>
  /\ \/ log[Len(log)] = "ok"
     \/ Len(log) = 2 /\ log[2] = "failed"

C12_SkippedWindowContributesNothing ==
  [][(/\ pc = "chunking"
      /\ attempts_log[chunk_i] = <<"failed">>
      /\ attempts_log'[chunk_i] = <<"failed", "failed">>)
       => final_graph' = window_graph]_vars

\* the segmentation has returned for a chunk_size >= 1 and an overlap with
\* 0 <= overlap < chunk_size
SegReturnedInDomain ==
  /\ seg_pc = "done"
  /\ seg_size >= 1
  /\ seg_overlap < seg_size

\* C17: for 0 <= overlap < chunk_size the chunks returned by _chunk_text are
\* slices [lo, hi) of the text in strictly increasing start order, the first
\* starts at 0, each starts no later than the previous one ends, and the
\* last ends at len(text): the spans cover [0, len(text)) with no gap.
C17_WindowsCoverText ==
  SegReturnedInDomain =>
    /\ seg_len > 0 => seg_chunks # <<>>
    /\ \A i \in 1..Len(seg_chunks) :
         /\ 0 <= seg_chunks[i].span.lo
         /\ seg_chunks[i].span.lo < seg_chunks[i].span.hi
         /\ seg_chunks[i].span.hi <= seg_len
         /\ seg_chunks[i].span.lo = seg_chunks[i].start
         /\ i = 1 => seg_chunks[i].span.lo = 0
         /\ i > 1 => /\ seg_chunks[i - 1].span.lo < seg_chunks[i].span.lo
                     /\ seg_chunks[i].span.lo <= seg_chunks[i - 1].span.hi
         /\ i = Len(seg_chunks) => seg_chunks[i].span.hi = seg_len

\* C17 witness: a text returned in four chunks that overlap, the last one
\* shorter than chunk_size
C17_Witness ==
  /\ SegReturnedInDomain
  /\ seg_overlap > 0
  /\ Len(seg_chunks) = 4
  /\ seg_chunks[4].span.hi - seg_chunks[4].span.lo < seg_size

\* C18: a text of length 9000 with chunk_size 4000 and overlap 300 is
\* returned as exactly the three chunks [0,4000), [3700,7700), [7400,9000);
\* in every returned list consecutive chunk starts differ by exactly
\* chunk_size - overlap and no chunk starts at or after len(text).
C18_ExampleWindows ==
  seg_pc = "done" =>
    /\ (seg_len = ExampleLength /\ seg_size = CHUNK_SIZE
          /\ seg_overlap = CHUNK_OVERLAP)
         => [i \in 1..Len(seg_chunks) |-> seg_chunks[i].span]
              = << [lo |-> 0, hi |-> 4000], [lo |-> 3700, hi |-> 7700],
                   [lo |-> 7400, hi |-> 9000] >>
    /\ \A i \in 1..Len(seg_chunks) :
         /\ seg_chunks[i].start < seg_len
         /\ i > 1 => seg_chunks[i].start - seg_chunks[i - 1].start
                       = seg_size - seg_overlap

\* C18 witness: the example has been segmented
C18_Witness ==
  /\ seg_pc = "done"
  /\ seg_len = ExampleLength
  /\ seg_size = CHUNK_SIZE
  /\ seg_overlap = CHUNK_OVERLAP
  /\ Len(seg_chunks) = 3

\* C19 (as claimed): _chunk_text terminates for every chunk_size and overlap,
\* overlap >= chunk_size included: the loop goes on to another chunk only
\* when start has advanced past the previous start, and stops otherwise.
C19_SegmentationStopsWithoutAdvance ==
  [][(seg_pc = "loop" /\ seg_pc' = "loop") => seg_start' > seg_start]_vars

\* C20 (as claimed): for 0 <= chunk_overlap < chunk_size (the defaults 4000
\* and 300 included) chunk_text_fixed_size terminates: after the chunk that
\* reaches the end of the text no further chunk is produced, so only the
\* last chunk of the list ends at len(text).
C20_NoChunkAfterEndOfText ==
  (tok_size >= 1 /\ tok_overlap < tok_size) =>
    \A i \in 1..Len(tok_chunks) :
      tok_chunks[i].end = Len(tok_text) => i = Len(tok_chunks)

\* C16 (as claimed): _is_same_entity is symmetric: for every pair of names,
\* names with repeated words and single-letter words included,
\* _is_same_entity(a, b) equals _is_same_entity(b, a).
C16_SameEntitySymmetric ==
  res_pc = "done" => res_forward = res_backward

\* some substring of text that starts with "{" and ends with "}" parses
brace_delimited_parses(text) ==
  \E a \in 1..Len(text) : \E b \in (a + 1)..Len(text) :
    /\ text[a] = "{"
    /\ text[b] = "}"
    /\ json_loads(SubSeq(text, a, b)).ok

\* the text between some pair of fences, after its "json" tag if it has
\* one, parses
fenced_block_parses(text) ==
  \E i \in 0..(Len(text) - 3) : \E j \in (i + 3)..(Len(text) - 3) :
    /\ occurs_at(text, Fence, i)
    /\ occurs_at(text, Fence, j)
    /\ \/ json_loads(SubSeq(text, i + 4, j)).ok
       \/ /\ i + 7 <= j
          /\ lower(SubSeq(text, i + 1, i + 7)) = JsonMarker
          /\ json_loads(SubSeq(text, i + 8, j)).ok

\* C13 (as claimed): clean_json_string terminates on every reply text (no
\* evaluation of the body of its fallback loop leaves search_start and
\* json_candidates as they were without leaving the loop, a reply with a
\* "{" that no "}" matches included), and when no fenced block and no
\* brace-delimited substring of the reply parses as JSON it returns the
\* default record text.
C13_CleanJsonTerminates ==
  /\ cj_pc = "fallback" =>
       LET next == fallback_iteration(cj_str, cj_search_start, cj_candidates)
       IN \/ ~next.looping
          \/ next.search_start > cj_search_start
  /\ (/\ cj_pc = "returned"
      /\ ~brace_delimited_parses(reply_text(cj_parts))
      /\ ~fenced_block_parses(reply_text(cj_parts)))
       => cj_out = DefaultJson

\* C14 (as claimed): on every reply text the parse and key test that follow
\* clean_json_string return without raising, and return a JSON object (the
\* recovered one or the default empty record), never an array, a string or
\* a number.
C14_StageReturnsObject ==
  /\ cj_pc # "stage_raised"
  /\ cj_pc = "stage_returned" => cj_data.kind = "object"

\* C15 (as claimed): for a reply made of fence-free prose, "```json", a
\* valid JSON object J, "```" and fence-free prose, what clean_json_string
\* returns parses to J, whatever else in the reply parses as JSON.
C15_JsonFenceTakesPriority ==
  (/\ cj_pc = "returned"
   /\ cj_parts.open = JsonMarker
   /\ cj_parts.close = Fence
   /\ json_loads(cj_parts.body).ok
   /\ json_loads(cj_parts.body).kind = "object"
   /\ ~contains(cj_parts.before, Fence)
   /\ ~contains(cj_parts.after, Fence))
    => json_loads(cj_out) = json_loads(cj_parts.body)

\* the uniqueness key of a relationship of the output: normalized source,
\* normalized target, upper-cased relation tag
output_key(rel) ==
  <<normalize_name(rel.source), normalize_name(rel.target),
    relation_upper(rel, RELATED_TO)>>

\* C21: in the list _deduplicate_relationships returns, no two relationships
\* have the same uniqueness key (normalized source, normalized target,
\* upper-cased relation), for every relationship list and entity map, also
\* when a shorter duplicate was replaced by a longer-named one.
C21_OutputKeysUnique ==
  rd_pc = "done" =>
    \A i, j \in 1..Len(rd_out) :
      output_key(rd_out[i]) = output_key(rd_out[j]) => i = j

\* C21 witness: the shorter-named relationship was replaced by the
\* longer-named duplicate that followed it, both endpoints being rewritten
\* to ids of the entity map
C21_Witness ==
  /\ rd_pc = "done"
  /\ rd_relationships = << Rel(MukeshAmbani, Jio, CHAIRMAN_OF),
                           Rel(ShriMukeshDAmbani, Jio, CHAIRMAN_OF) >>
  /\ dict_keys(rd_entity_map) = <<MukeshAmbani, JioLtd>>
  /\ rd_out = << Rel(MukeshAmbani, JioLtd, CHAIRMAN_OF) >>

\* whether _is_same_entity matches the name to some id of the entity map
matches_entity(name, entity_map) ==
  \E i \in 1..Len(entity_map) : is_same_entity(name, entity_map[i].key)

\* an endpoint of the output against the endpoint it was made from
endpoint_is_canonical(out_name, in_name, entity_map) ==
  IF matches_entity(in_name, entity_map)
  THEN dict_has(entity_map, out_name)
  ELSE out_name = in_name

\* C27: in the list _deduplicate_relationships returns for the entity map E,
\* every relationship comes from an input relationship whose endpoints were
\* rewritten to an id of E where _is_same_entity matched them to an id of
\* E, and left as they were where it matched none; so no returned endpoint
\* matches an id of E without being an id of E.
C27_EndpointsAreCanonical ==
  rd_pc = "done" =>
    \A i \in 1..Len(rd_out) :
      /\ \E j \in 1..Len(rd_relationships) :
           /\ rd_relationships[j].isdict
           /\ rd_out[i].relation = rd_relationships[j].relation
           /\ endpoint_is_canonical(rd_out[i].source,
                                    rd_relationships[j].source, rd_entity_map)
           /\ endpoint_is_canonical(rd_out[i].target,
                                    rd_relationships[j].target, rd_entity_map)
      /\ matches_entity(rd_out[i].source, rd_entity_map)
           => dict_has(rd_entity_map, rd_out[i].source)
      /\ matches_entity(rd_out[i].target, rd_entity_map)
           => dict_has(rd_entity_map, rd_out[i].target)

\* C27 witness: the source "Mukesh Ambani" was rewritten to the id of the
\* entity it matches, and the target, which matches no entity, was kept
C27_Witness ==
  /\ rd_pc = "done"
  /\ rd_relationships = << Rel(MukeshAmbani, Jio, CHAIRMAN_OF) >>
  /\ dict_keys(rd_entity_map) = <<ShriMukeshDAmbani>>
  /\ rd_out = << Rel(ShriMukeshDAmbani, Jio, CHAIRMAN_OF) >>
  /\ ~matches_entity(Jio, rd_entity_map)

\* C30 (as claimed): after any number of merge passes, every entity of the
\* input that has a non-empty id is represented in the entity list by an
\* entity whose id _is_same_entity judges equivalent to its id (in one order
\* of the arguments or the other), replacements by longer-named or
\* better-described variants included.
C30_NoEntityLost ==
  merge_pass >= 1 =>
    \A i \in 1..Len(merge_input.entities) :
      (merge_input.entities[i].isdict /\ merge_input.entities[i].id # <<>>)
        => \E j \in 1..Len(merge_graph.entities) :
             \/ is_same_entity(merge_input.entities[i].id,
                               merge_graph.entities[j].id)
             \/ is_same_entity(merge_graph.entities[j].id,
                               merge_input.entities[i].id)

\* the acronym of a name: the upper-cased initials of its words
acronym(name) ==
  upper([i \in 1..Len(split(name)) |-> split(name)[i][1]])

\* C29 (as claimed): _is_same_entity judges a multi-word company name and
\* the acronym formed from the initials of its words to be the same entity,
\* in both orders of the arguments: "RIL" and "Reliance Industries Limited"
\* give True.
C29_AcronymMatchesExpansion ==
  (/\ res_pc = "done"
   /\ Len(split(res_name2)) >= 2
   /\ res_name1 = acronym(res_name2))
    => res_forward /\ res_backward

\* the month names
month_names == date_patterns \ {<<"f","y"," ">>, <<"c","y">>}

is_letter(c) == c \in Range(LowerChars) \cup Range(UpperChars)

\* the name occurs in s as a word: no letter right before it or right after
occurs_as_word(s, name) ==
  \E i \in 0..(Len(s) - Len(name)) :
    /\ occurs_at(s, name, i)
    /\ i > 0 => ~is_letter(s[i])
    /\ i + Len(name) < Len(s) => ~is_letter(s[i + Len(name) + 1])

\* the reasons for which the filter is said to drop an entity
stated_reason(entity) ==
  \/ \E month \in month_names : occurs_as_word(lower(entity.id), month)
  \/ startswith(lower(entity.id), <<"f","y">>)
  \/ startswith(lower(entity.id), <<"c","y">>)
  \/ /\ \E year \in year_patterns : contains(entity.id, year)
     /\ Len(entity.id) < 20
  \/ entity.type \in invalid_types
  \/ /\ entity.type = "Dollar Amount"
     /\ contains(entity.id, <<"%">>)
     /\ Len(entity.id) < 10

has_no_stated_reason(entity) == entity.isdict /\ ~stated_reason(entity)

\* C28 (as claimed): _filter_invalid_entities keeps, in input order, every
\* entity that has none of the stated reasons to be dropped (a month name
\* in its id, an "fy"/"cy" prefix, a bare year in a short id, the type
\* Date, Event or Document, a bare percentage typed as a monetary amount):
\* a Risk or Company whose id only has the letters "cy" or "may" inside a
\* word is kept.
C28_DropsOnlyForStatedReasons ==
  flt_pc = "done" =>
    SelectSeq(flt_out, has_no_stated_reason)
      = SelectSeq(flt_entities, has_no_stated_reason)

\* C25 (as claimed): for 0 <= overlap < chunk_size, every chunk returned by
\* _chunk_text other than the last has exactly chunk_size characters and
\* the next chunk starts overlap characters before its end; only the last
\* chunk may be shorter, and no chunk is empty.
C25_OnlyLastWindowShort ==
  SegReturnedInDomain =>
    \A i \in 1..Len(seg_chunks) :
      /\ seg_chunks[i].span.lo < seg_chunks[i].span.hi
      /\ i < Len(seg_chunks) =>
           /\ seg_chunks[i].span.hi - seg_chunks[i].span.lo = seg_size
           /\ seg_chunks[i + 1].span.lo = seg_chunks[i].span.hi - seg_overlap

\* C26 (as claimed): analyze makes the oracle calls window by window in
\* segment order (at each call every earlier window has been merged or
\* skipped and no later window has been called), and the known-entity hint
\* of each call is exactly the set of normalized ids of the entities in the
\* accumulator at that moment, all of it shown in the prompt, and is empty
\* for the first window.
C26_SequentialWithExactHint ==
  [][(pc = "chunking" /\ attempts_log' # attempts_log) =>
       /\ hint'.names = existing_entity_names(final_graph)
       /\ hint'.sample = hint'.names
       /\ chunk_i = 1 => hint'.names = {}
       /\ \A i \in 1..(chunk_i - 1) : window_finished(attempts_log[i])
       /\ \A i \in (chunk_i + 1)..Len(attempts_log) :
            attempts_log'[i] = <<>>]_vars

C22_MissingKeysGiveEmptyRecord ==
  (/\ cj_pc \in {"stage_returned", "stage_raised"}
   /\ json_loads(cj_out).ok
   /\ json_loads(cj_out).kind = "object"
   /\ \/ ~key_in(EntitiesKey, json_loads(cj_out))
      \/ ~key_in(RelationshipsKey, json_loads(cj_out)))
    => /\ cj_pc = "stage_returned"
       /\ cj_data = EmptyData

\* C22 witness: the reply {"entities":[5]}, with a non-empty list under the
\* one key it has, has given the empty record
C22_Witness ==
  /\ cj_pc = "stage_returned"
  /\ cj_out = EntitiesOnly
  /\ key_in(EntitiesKey, json_loads(cj_out))
  /\ ~key_in(RelationshipsKey, json_loads(cj_out))
  /\ cj_data = EmptyData

\* the candidates the claim names: for every "{" of s that a "}" balances,
\* the stripped text from it to that "}", when it parses
every_brace_candidates(s) ==
  { brace_candidate(s, k, balanced_end(s, k)) :
      k \in { i \in 0..(Len(s) - 1) :
                /\ s[i + 1] = "{"
                /\ candidate_parses(s, i, balanced_end(s, i)) } }

\* C24 (as claimed): when neither the fenced block nor the first
\* brace-balanced substring parses, clean_json_string returns the longest of
\* the candidates that start at any "{" of the string (one nested inside an
\* earlier balanced candidate that does not parse included) and parse, and
\* the default record text only if there is none.
C24_FallbackTriesEveryBrace ==
  (/\ cj_pc = "returned"
   /\ reply_text(cj_parts) # <<>>
   /\ ~before_fallback(reply_text(cj_parts)).returned)
    => IF every_brace_candidates(cj_str) = {}
       THEN cj_out = DefaultJson
       ELSE /\ cj_out \in every_brace_candidates(cj_str)
            /\ \A c \in every_brace_candidates(cj_str) : Len(c) <= Len(cj_out)

====
